---- MODULE Spec2Model ----
(***************************************************************************)
(* Model of the d-agents controller: the session store, the submitter      *)
(* (text controller cmd/controller/main.go and the window controller),     *)
(* the unbuffered workload channel, the worker pool (runWorker and         *)
(* worker.ProcessWorkload), the provider registry (worker.Init) and the    *)
(* price-drop analyzer (ShoppingNotificationAgent.DoWork).                 *)
(*                                                                         *)
(* Text is a sequence of atoms: a typed line is <<line, "NL">>, the        *)
(* separator "\n\n---\n\n" written by appendPayloadAndSave is "SEP".       *)
(***************************************************************************)
EXTENDS Integers, Sequences, FiniteSets, TLC

\* ------------------------------------------------------------------ bounds
NumWorkers == 2
MaxSessions == 2
MaxRuns == 2
MaxLines == 1
MaxModels == 3
MaxReinits == 1
MaxProducts == 3
MaxDate == 3
MaxRows == 4
MaxClock == 2
MaxTickers == 2

\* ------------------------------------------------------------------ values
Workers == 1..NumWorkers
Ids == 1..MaxSessions

\* models.Model records: the rows of the models table
Model(id, provider, key, name, url, spec) ==
  [id |-> id, provider |-> provider, apiKey |-> key, modelId |-> name,
   apiURL |-> url, apiSpec |-> spec]

M1 == Model("m1", "google", "k1", "gemini-pro", "", "gemini")
M2 == Model("m2", "acme", "k2", "gpt-4o", "", "openai")
M3 == Model("m3", "acme", "k3", "gemini-flash", "", "gemini")
M4 == Model("m4", "local", "k4", "llama", "http://l", "")
M5 == Model("m5", "google", "k5", "bison", "", "vertex")

ModelUniverse == {M1, M2, M3, M4, M5}
ModelIds == {m.id : m \in ModelUniverse}
Providers == {m.provider : m \in ModelUniverse}

\* a lookup that misses: the nil *Model, the nil client
NoModel == Model("", "", "", "", "", "")
NoClient == [spec |-> "nil", apiKey |-> "", apiURL |-> ""]

\* models.Agent rows of the agents table
AgentRows ==
  [a1 |-> [name |-> "chat", type |-> "ChatAgent"],
   a2 |-> [name |-> "odd", type |-> "bogus"]]
AgentIds == DOMAIN AgentRows

\* the agent implementations of package agents
AgentImpls == {"ChatAgent", "ShoppingAgent", "ShoppingNotificationAgent",
               "CompanyRelationshipAgent"}

\* pb.WorkloadStatus
PENDING == "PENDING"
RUNNING == "RUNNING"
COMPLETED == "COMPLETED"
FAILED == "FAILED"

\* the texts a vendor call answers with, when it does not fail
Responses == {<<"r1">>}

\* what the user types: instruction lines, and the agent and the model ids
\* of a new session
Lines == {"t1"}
Choice(agentId, models) == [agentId |-> agentId, models |-> models]
TuiChoices == {Choice("a1", <<"m1">>), Choice("a2", <<"m2", "m4">>),
               Choice("a1", <<"m4">>), Choice("a1", <<"m3">>)}
GuiChoices == TuiChoices \cup {Choice("a1", <<>>)}

VARIABLES
  ui,          \* which controller binary runs: "tui" or "gui"
  flagWorkers, \* main: the -workers flag, 0 when it is not given
  cfgWorkers,  \* main: config.Workers, 0 when config.json gives none
  numWorkers,  \* main: numWorkers
  loops,       \* main: how many runWorker goroutines it has started
  modelStore,  \* controller: ids of the models known to the submitter
  modelInfo,   \* worker: model id -> Model
  clients,     \* worker: provider -> client
  db,          \* sessions table: id -> row
  mem,         \* the submitter's session object of each id
  nextId,      \* how many session ids have been handed out
  cur,         \* tui: currentSession (an id), 0 for nil
  buf,         \* tui: payloadBuffer
  inputMode,   \* tui: inPayloadInputMode
  tab,         \* gui: the session's tab is open
  binding,     \* gui: payloadBinding of the session's tab
  sched,       \* gui: scheduledSessions holds a ticker for the id
  live,        \* gui: the schedule goroutines of the id whose ticker runs
  pending,     \* a sender blocked in `workloadChan <- session`
  wk,          \* the workers
  initPc,      \* worker.Init called again: where that call stands
  todo,        \* worker.Init called again: the models its loop has left
  inits,       \* how often worker.Init was called again
  crashed,     \* the process has ended (fatal error, os.Exit, return of main)
  clock,       \* the wall clock, in seconds: time.Now().Unix(), CURRENT_TIMESTAMP
  dbUp,        \* the sessions database answers; FALSE: its calls return an error
  products,    \* shopping.db: the rows of the products table, in row order
  seen,        \* what GetAllProducts gave the last price-drop analysis
  notes,       \* the notifications of the last price-drop analysis
  job,         \* the last DoWork call of an agent: its arguments and how it ended
  graph,       \* neo4j: the COMPETITOR/CUSTOMER/PARTNER edges written so far
  llm,         \* an LLMClient: its modelInfo and its clients, by model id
  gen,         \* what the last GenerateContentWithSystemPrompt did
  runs,        \* history: run actions per id
  taken,       \* history: dequeues per id
  done,        \* history: ProcessWorkload returns per id
  preRun,      \* history: payload persisted by the last run action
  last         \* history: how the last ProcessWorkload of an id ended

config == <<ui, flagWorkers, cfgWorkers, numWorkers, loops>>
registry == <<modelInfo, clients>>
tuiVars == <<cur, buf, inputMode>>
guiVars == <<tab, binding, sched, live>>
reinitVars == <<initPc, todo, inits, crashed>>
llmVars == <<llm, gen>>
shopVars == <<products, seen, notes>>
agentVars == <<job, graph>>

vars == <<config, registry, tuiVars, guiVars, reinitVars, llmVars, shopVars,
          agentVars,
          clock, dbUp, modelStore, db, mem, nextId,
          pending, wk, runs, taken, done, preRun, last>>

\* ------------------------------------------------------------------ registry

\* genai.NewClient / openai.NewClient: the client a wire-spec builds
NewClient(model) ==
  [spec |-> model.apiSpec, apiKey |-> model.apiKey,
   apiURL |-> IF model.apiSpec = "openai" THEN model.apiURL ELSE ""]

\* the key of the clients map under which worker.Init files a model's client
ClientKey(model) == model.provider

\* one iteration of the loop of worker.Init; fails: the models whose
\* genai.NewClient returns an error
InitStep(reg, model, fails) ==
  LET mi == [reg.modelInfo EXCEPT ![model.id] = model]
  IN IF reg.clients[ClientKey(model)] # NoClient
     THEN [modelInfo |-> mi, clients |-> reg.clients]
     ELSE IF model.apiSpec \notin {"gemini", "openai"}
     THEN [modelInfo |-> mi, clients |-> reg.clients]
     ELSE IF model.apiSpec = "gemini" /\ model.id \in fails
     THEN [modelInfo |-> mi, clients |-> reg.clients]
     ELSE [modelInfo |-> mi,
           clients |-> [reg.clients EXCEPT ![ClientKey(model)] = NewClient(model)]]

EmptyRegistry == [modelInfo |-> [k \in ModelIds |-> NoModel],
                  clients |-> [p \in Providers |-> NoClient]]

RECURSIVE InitLoop(_, _, _)
InitLoop(reg, models, fails) ==
  IF models = <<>> THEN reg
  ELSE InitLoop(InitStep(reg, Head(models), fails), Tail(models), fails)

\* worker.Init(ctx, models, db)
WorkerInit(models, fails) == InitLoop(EmptyRegistry, models, fails)

\* one iteration of the loop of NewLLMClient: the client is filed under the
\* model's id
LLMStep(l, model, fails) ==
  LET mi == [l.modelInfo EXCEPT ![model.id] = model]
  IN IF l.clients[model.id] # NoClient
     THEN [modelInfo |-> mi, clients |-> l.clients]
     ELSE IF model.apiSpec \notin {"gemini", "openai"}
     THEN [modelInfo |-> mi, clients |-> l.clients]
     ELSE IF model.apiSpec = "gemini" /\ model.id \in fails
     THEN [modelInfo |-> mi, clients |-> l.clients]
     ELSE [modelInfo |-> mi,
           clients |-> [l.clients EXCEPT ![model.id] = NewClient(model)]]

EmptyLLM == [modelInfo |-> [k \in ModelIds |-> NoModel],
             clients |-> [k \in ModelIds |-> NoClient]]

RECURSIVE LLMLoop(_, _, _)
LLMLoop(l, models, fails) ==
  IF models = <<>> THEN l
  ELSE LLMLoop(LLMStep(l, Head(models), fails), Tail(models), fails)

\* NewLLMClient(ctx, models)
NewLLMClient(models, fails) == LLMLoop(EmptyLLM, models, fails)

\* what a vendor call gives back: its error ("" for nil), the text of its
\* response and the number of choices in it; a failed call may carry a part
\* of a response
NoOutcome == [error |-> "", text |-> <<>>, choices |-> 0]
Outcome(error, text, choices) ==
  [error |-> error, text |-> text, choices |-> choices]
VendorOutcomes ==
  {Outcome("quota", <<>>, 0), Outcome("quota", <<"r1">>, 1),
   Outcome("", <<"r1">>, 1), Outcome("", <<>>, 1), Outcome("", <<>>, 0)}

\* what a call of GenerateContentWithSystemPrompt comes to: the error it
\* returns before any vendor call, or the vendor call it makes
NoGen == [asked |-> <<>>, err |-> "", model |-> NoModel, client |-> NoClient,
          vendor |-> NoOutcome, text |-> <<>>, panic |-> FALSE]

\* a resolution that goes by the last id of the models list
GenerateByLast(l, models) ==
  IF models = <<>>
  THEN [NoGen EXCEPT !.err = "no models"]
  ELSE IF models[Len(models)] \notin ModelIds
          \/ l.modelInfo[models[Len(models)]] = NoModel
  THEN [NoGen EXCEPT !.asked = models, !.err = "no model info"]
  ELSE IF l.clients[models[Len(models)]] = NoClient
  THEN [NoGen EXCEPT !.asked = models, !.err = "no client",
                     !.model = l.modelInfo[models[Len(models)]]]
  ELSE [NoGen EXCEPT !.asked = models,
                     !.model = l.modelInfo[models[Len(models)]],
                     !.client = l.clients[models[Len(models)]]]

\* workload.Models is asked; the lookups by its first id
Generate(l, models) ==
  IF models = <<>>
  THEN [NoGen EXCEPT !.err = "no models"]
  ELSE IF models[1] \notin ModelIds \/ l.modelInfo[models[1]] = NoModel
  THEN [NoGen EXCEPT !.asked = models, !.err = "no model info"]
  ELSE IF l.clients[l.modelInfo[models[1]].id] = NoClient
  THEN [NoGen EXCEPT !.asked = models, !.err = "no client",
                     !.model = l.modelInfo[models[1]]]
  ELSE [NoGen EXCEPT !.asked = models, !.model = l.modelInfo[models[1]],
                     !.client = l.clients[l.modelInfo[models[1]].id]]

\* a generate call that hands on the text of a failed vendor call
ReturnedPartial(g, o) ==
  IF g.err # "" THEN g ELSE [g EXCEPT !.vendor = o, !.text = o.text]

\* GenerateContentWithSystemPrompt from its type switch on: the vendor call
\* of the resolved client gives o, and the call returns g.text and g.err
Returned(g, o) ==
  IF g.err # "" THEN g
  ELSE IF g.client.spec = "gemini"
  THEN IF o.error # ""
       THEN [g EXCEPT !.vendor = o,
                      !.err = "error calling Gemini API: " \o o.error]
       ELSE [g EXCEPT !.vendor = o, !.text = o.text]
  ELSE IF g.client.spec = "openai"
  THEN IF o.error # ""
       THEN [g EXCEPT !.vendor = o,
                      !.err = "error calling OpenAI API: " \o o.error]
       ELSE IF o.choices = 0
       THEN [g EXCEPT !.vendor = o, !.panic = TRUE]
       ELSE [g EXCEPT !.vendor = o, !.text = o.text]
  ELSE [g EXCEPT !.err = "unknown client type"]

\* the models table at startup (db.ListModels)
StartupModels == <<M1, M2, M4>>

\* ------------------------------------------------------------------ datastore

NoRow == [name |-> "", agentId |-> "", agentType |-> "", models |-> <<>>,
          payload |-> <<>>, status |-> "ABSENT", timestamp |-> 0]

\* strings.Split(strings.Join(models, ","), ","): what GetSession gives back
SplitJoin(models) == IF models = <<>> THEN <<"">> ELSE models

\* SQLiteDatastore.AddSession: INSERT OR REPLACE of the row of the session.
\* The statement names no timestamp, so the new row gets the column's
\* default, CURRENT_TIMESTAMP
AddSession(table, id, s) ==
  [table EXCEPT ![id] = [s EXCEPT !.timestamp = clock]]

\* SQLiteDatastore.GetSession
GetSession(table, id) ==
  [table[id] EXCEPT !.models = SplitJoin(table[id].models)]

\* ------------------------------------------------------------------ channel

Senders == {0} \cup Ids
UiThread == 0

NoMsg == [id |-> 0, models |-> <<>>]
Msg(id, s) == [id |-> id, models |-> s.models]

IdleWorker == [pc |-> "idle", id |-> 0, models |-> <<>>, model |-> NoModel,
               client |-> NoClient, resp |-> <<>>, session |-> NoRow,
               snap |-> EmptyRegistry, torn |-> FALSE]

RECURSIVE SumTo(_, _)
SumTo(f, n) == IF n = 0 THEN 0 ELSE f[n] + SumTo(f, n - 1)
TotalRuns == SumTo(runs, MaxSessions)

\* ------------------------------------------------------------------ start

\* main: the models table is loaded and handed to worker.Init
Registered(models, fails) ==
  /\ modelStore = {models[i].id : i \in DOMAIN models}
  /\ modelInfo = WorkerInit(models, fails).modelInfo
  /\ clients = WorkerInit(models, fails).clients
  /\ llm = NewLLMClient(models, fails)

\* a *pb.Workload handed to an agent: nil, or its Name, Payload and Config
NilWorkload == [nil |-> TRUE, name |-> "", payload |-> <<>>, config |-> ""]
Workload(name, payload, cfg) ==
  [nil |-> FALSE, name |-> name, payload |-> payload, config |-> cfg]

\* no DoWork call yet
NoJob ==
  [agent |-> "", workload |-> NilWorkload, client |-> FALSE, payload |-> <<>>,
   result |-> "", step |-> "", calls |-> 0, touched |-> FALSE, mail |-> ""]

\* main: the number of workers, from the flag and the configuration file
DefaultWorkers == 5
WorkersOf(flag, cfg) ==
  LET n == IF flag > 0 THEN flag ELSE cfg
  IN  IF n = 0 THEN DefaultWorkers ELSE n

\* main: `for i := 0; i < numWorkers; i++ { go runWorker(i, workloadChan) }`
\* has ended
PoolStarted == loops >= numWorkers

\* the process before main has read its flag and configuration
Loaded ==
  /\ ui \in {"tui", "gui"}
  /\ db = [i \in Ids |-> NoRow]
  /\ mem = [i \in Ids |-> NoRow]
  /\ nextId = 0
  /\ cur = 0
  /\ buf = <<>>
  /\ inputMode = FALSE
  /\ tab = [i \in Ids |-> FALSE]
  /\ binding = [i \in Ids |-> <<>>]
  /\ sched = [i \in Ids |-> FALSE]
  /\ live = [i \in Ids |-> 0]
  /\ pending = [s \in Senders |-> NoMsg]
  /\ wk = [w \in Workers |-> IdleWorker]
  /\ initPc = "idle"
  /\ todo = <<>>
  /\ inits = 0
  /\ crashed = FALSE
  /\ gen = NoGen
  /\ clock = 1
  /\ dbUp = TRUE
  /\ products = <<>>
  /\ seen = <<>>
  /\ notes = {}
  /\ job = NoJob
  /\ graph = {}
  /\ runs = [i \in Ids |-> 0]
  /\ taken = [i \in Ids |-> 0]
  /\ done = [i \in Ids |-> 0]
  /\ preRun = [i \in Ids |-> <<>>]
  /\ last = [i \in Ids |-> "none"]

\* the process with its pool started, for the pool sizes explored
Started ==
  /\ flagWorkers = 0
  /\ cfgWorkers \in 1..NumWorkers
  /\ numWorkers = WorkersOf(flagWorkers, cfgWorkers)
  /\ loops = numWorkers
  /\ Loaded

Init ==
  /\ Registered(StartupModels, {})
  /\ Started

\* ------------------------------------------------------------------ text controller

\* a table that takes the row although the call returns an error
PersistAnyway(id, s) == AddSession(db, id, s)

\* the table after a call of db.AddSession(s): the call returns an error and
\* writes nothing while the database does not answer
Persist(id, s) == IF dbUp THEN AddSession(db, id, s) ELSE db

\* a thread that goes on while its send has not been received
UiNeverBlocked == ~crashed

\* the process runs, and the thread that handles the user's input is not
\* blocked in a send
UiFree == ~crashed /\ pending[UiThread] = NoMsg

NewSession(name, agentId, models) ==
  [name |-> name, agentId |-> agentId, agentType |-> AgentRows[agentId].type,
   models |-> models, payload |-> <<>>, status |-> PENDING,
   timestamp |-> clock]

\* the bookkeeping of a run action that hands session s of id to the channel
Submit(sender, id, s) ==
  /\ TotalRuns < MaxRuns
  /\ mem' = [mem EXCEPT ![id] = s]
  /\ db' = Persist(id, s)
  /\ pending' = [pending EXCEPT ![sender] = Msg(id, s)]
  /\ runs' = [runs EXCEPT ![id] = @ + 1]
  /\ preRun' = [preRun EXCEPT ![id] = s.payload]

\* processCommand: a line that is no command, typed in payload input mode
TuiType(line) ==
  /\ ui = "tui" /\ UiFree
  /\ inputMode
  /\ Len(buf) < 2 * MaxLines
  /\ buf' = buf \o <<line, "NL">>
  /\ UNCHANGED <<config, clock, agentVars, shopVars, dbUp, reinitVars, llmVars, registry, guiVars, modelStore, db, mem, nextId, cur,
                 inputMode, pending, wk, runs, taken, done, preRun, last>>

\* /session start <agent-id> <model-id1,model-id2,...>
TuiSessionStart(agentId, models) ==
  /\ ui = "tui" /\ UiFree
  /\ \A i \in DOMAIN models : models[i] \in modelStore
  /\ nextId < MaxSessions
  /\ nextId' = nextId + 1
  /\ mem' = [mem EXCEPT ![nextId + 1] =
               NewSession(AgentRows[agentId].name, agentId, models)]
  /\ cur' = nextId + 1
  /\ inputMode' = TRUE
  /\ buf' = <<>>
  /\ UNCHANGED <<config, clock, agentVars, shopVars, dbUp, reinitVars, llmVars, registry, guiVars, modelStore, db, pending, wk,
                 runs, taken, done, preRun, last>>

\* /session run <session-id>
TuiRunId(id) ==
  /\ ui = "tui" /\ UiFree
  /\ mem[id] # NoRow
  /\ Submit(UiThread, id, [mem[id] EXCEPT !.status = RUNNING])
  /\ UNCHANGED <<config, clock, agentVars, shopVars, dbUp, reinitVars, llmVars, registry, tuiVars, guiVars, modelStore, nextId, wk,
                 taken, done, last>>

\* /session run
TuiRunCurrent ==
  /\ ui = "tui" /\ UiFree
  /\ cur # 0
  /\ inputMode' = FALSE
  /\ buf' = <<>>
  /\ Submit(UiThread, cur, [mem[cur] EXCEPT !.payload = buf, !.status = RUNNING])
  /\ UNCHANGED <<config, clock, agentVars, shopVars, dbUp, reinitVars, llmVars, registry, guiVars, modelStore, nextId, cur, wk,
                 taken, done, last>>

\* /session save
TuiSave ==
  /\ ui = "tui" /\ UiFree
  /\ cur # 0
  /\ inputMode' = FALSE
  /\ mem' = [mem EXCEPT ![cur].payload = buf]
  /\ db' = Persist(cur, mem'[cur])
  /\ UNCHANGED <<config, clock, agentVars, shopVars, dbUp, reinitVars, llmVars, registry, guiVars, modelStore, nextId, cur, buf,
                 pending, wk, runs, taken, done, preRun, last>>

\* /session load <workload-id>
TuiLoad(id) ==
  /\ ui = "tui" /\ UiFree
  /\ dbUp /\ db[id] # NoRow
  /\ mem' = [mem EXCEPT ![id] = GetSession(db, id)]
  /\ cur' = id
  /\ buf' = db[id].payload
  /\ inputMode' = TRUE
  /\ UNCHANGED <<config, clock, agentVars, shopVars, dbUp, reinitVars, llmVars, registry, guiVars, modelStore, db, nextId, pending,
                 wk, runs, taken, done, preRun, last>>

\* /add model @<filename> (and the Add Model button): the row goes to the
\* models table and to modelStore; worker.Init is not called again
AddModel(m) ==
  /\ UiFree
  /\ m.id \notin modelStore
  /\ modelStore' = modelStore \cup {m.id}
  /\ UNCHANGED <<config, clock, agentVars, shopVars, dbUp, reinitVars, llmVars, registry, tuiVars, guiVars, db, mem, nextId,
                 pending, wk, runs, taken, done, preRun, last>>

\* ------------------------------------------------------------------ window controller

Texts == {<<"t1">>}

\* Create Session: the form's callback; the new session gets a tab, no row
GuiCreate(agentId, models) ==
  /\ ui = "gui" /\ UiFree
  /\ \A i \in DOMAIN models : models[i] \in modelStore
  /\ nextId < MaxSessions
  /\ nextId' = nextId + 1
  /\ mem' = [mem EXCEPT ![nextId + 1] =
               NewSession(AgentRows[agentId].name, agentId, models)]
  /\ tab' = [tab EXCEPT ![nextId + 1] = TRUE]
  /\ binding' = [binding EXCEPT ![nextId + 1] = <<>>]
  /\ UNCHANGED <<config, clock, agentVars, shopVars, dbUp, reinitVars, llmVars, registry, tuiVars, modelStore, db, sched, live, pending,
                 wk, runs, taken, done, preRun, last>>

\* the user edits the payload entry of a tab
GuiEdit(id, text) ==
  /\ ui = "gui" /\ UiFree
  /\ tab[id]
  /\ binding[id] # text
  /\ binding' = [binding EXCEPT ![id] = text]
  /\ UNCHANGED <<config, clock, agentVars, shopVars, dbUp, reinitVars, llmVars, registry, tuiVars, modelStore, db, mem, nextId, tab,
                 sched, live, pending, wk, runs, taken, done, preRun, last>>

\* saveButton
GuiSave(id) ==
  /\ ui = "gui" /\ UiFree
  /\ tab[id]
  /\ mem' = [mem EXCEPT ![id].payload = binding[id]]
  /\ db' = Persist(id, mem'[id])
  /\ UNCHANGED <<config, clock, agentVars, shopVars, dbUp, reinitVars, llmVars, registry, tuiVars, guiVars, modelStore, nextId,
                 pending, wk, runs, taken, done, preRun, last>>

\* runSession, called by sender: the window's thread or a schedule's goroutine
RunSession(sender, id) ==
  Submit(sender, id,
         [mem[id] EXCEPT !.payload = binding[id], !.status = RUNNING])

\* runButton, "Schedule periodic runs" not checked: run immediately
GuiRun(id) ==
  /\ ui = "gui" /\ UiFree
  /\ tab[id]
  /\ RunSession(UiThread, id)
  /\ UNCHANGED <<config, clock, agentVars, shopVars, dbUp, reinitVars, llmVars, registry, tuiVars, guiVars, modelStore, nextId, wk,
                 taken, done, last>>

\* runButton, "Schedule periodic runs" checked, with a valid interval. The
\* button is hidden in view mode while the session is scheduled and shown in
\* edit mode; the new ticker takes the place of the old one in
\* scheduledSessions, and the old one is not stopped
GuiSchedule(id) ==
  /\ ui = "gui" /\ UiFree
  /\ tab[id]
  /\ live[id] < MaxTickers
  /\ sched' = [sched EXCEPT ![id] = TRUE]
  /\ live' = [live EXCEPT ![id] = @ + 1]
  /\ UNCHANGED <<config, clock, agentVars, shopVars, dbUp, reinitVars, llmVars, registry, tuiVars, modelStore, db, mem, nextId, tab,
                 binding, pending, wk, runs, taken, done, preRun, last>>

\* the schedule's goroutine takes a tick of its ticker
GuiTick(id) ==
  /\ ui = "gui" /\ ~crashed
  /\ live[id] > 0
  /\ pending[id] = NoMsg
  /\ mem[id].status # RUNNING
  /\ RunSession(id, id)
  /\ UNCHANGED <<config, clock, agentVars, shopVars, dbUp, reinitVars, llmVars, registry, tuiVars, guiVars, modelStore, nextId, wk,
                 taken, done, last>>

\* stopButton: the ticker that scheduledSessions holds is stopped
GuiStop(id) ==
  /\ ui = "gui" /\ UiFree
  /\ tab[id]
  /\ sched[id]
  /\ sched' = [sched EXCEPT ![id] = FALSE]
  /\ live' = [live EXCEPT ![id] = @ - 1]
  /\ UNCHANGED <<config, clock, agentVars, shopVars, dbUp, reinitVars, llmVars, registry, tuiVars, modelStore, db, mem, nextId, tab,
                 binding, pending, wk, runs, taken, done, preRun, last>>

\* closeButton: close(done) ends every schedule goroutine of the tab
GuiClose(id) ==
  /\ ui = "gui" /\ UiFree
  /\ tab[id]
  /\ sched' = [sched EXCEPT ![id] = FALSE]
  /\ live' = [live EXCEPT ![id] = 0]
  /\ tab' = [tab EXCEPT ![id] = FALSE]
  /\ UNCHANGED <<config, clock, agentVars, shopVars, dbUp, reinitVars, llmVars, registry, tuiVars, modelStore, db, mem, nextId,
                 binding, pending, wk, runs, taken, done, preRun, last>>

\* ------------------------------------------------------------------ worker pool

\* a worker that enters ProcessWorkload(workload); snap and torn are history:
\* the registry as it stood at the call, and whether a lookup of the call
\* has read a registry that differs from it
Called(id, models) ==
  [IdleWorker EXCEPT !.pc = "start", !.id = id, !.models = models,
                     !.snap = [modelInfo |-> modelInfo, clients |-> clients]]

\* runWorker: `for workload := range workloadChan`, the rendezvous of one
\* blocked sender with one worker waiting in the receive
Receive(w, sender) ==
  /\ ~crashed
  /\ w <= loops
  /\ wk[w].pc = "idle"
  /\ pending[sender] # NoMsg
  /\ wk' = [wk EXCEPT ![w] = Called(pending[sender].id,
                                     pending[sender].models)]
  /\ pending' = [pending EXCEPT ![sender] = NoMsg]
  /\ taken' = [taken EXCEPT ![wk'[w].id] = @ + 1]
  /\ UNCHANGED <<config, clock, agentVars, shopVars, dbUp, reinitVars, llmVars, registry, tuiVars, guiVars, modelStore, db, mem,
                 nextId, runs, done, preRun, last>>

\* a worker that starts over on a workload that ended with an error
ReturnOrRetry(w, how) ==
  /\ wk' = [wk EXCEPT ![w] = IF how \in {"vendor error", "no client"}
                               THEN Called(wk[w].id, wk[w].models)
                               ELSE IdleWorker]
  /\ done' = [done EXCEPT ![wk[w].id] = @ + 1]
  /\ last' = [last EXCEPT ![wk[w].id] = how]

\* ProcessWorkload returns: the worker goes back to the receive
Return(w, how) ==
  /\ wk' = [wk EXCEPT ![w] = IdleWorker]
  /\ done' = [done EXCEPT ![wk[w].id] = @ + 1]
  /\ last' = [last EXCEPT ![wk[w].id] = how]

\* ProcessWorkload: the models check and the lookup in modelInfo
LookupModel(w) ==
  /\ ~crashed
  /\ wk[w].pc = "start"
  /\ IF wk[w].models = <<>>
     THEN Return(w, "no models")
     ELSE IF wk[w].models[1] \notin ModelIds
             \/ modelInfo[wk[w].models[1]] = NoModel
     THEN Return(w, "no model info")
     ELSE /\ wk' = [wk EXCEPT ![w].pc = "client",
                              ![w].model = modelInfo[wk[w].models[1]],
                              ![w].torn = (modelInfo # wk[w].snap.modelInfo)]
          /\ UNCHANGED <<done, last>>
  /\ UNCHANGED <<config, clock, agentVars, shopVars, dbUp, reinitVars, llmVars, registry, tuiVars, guiVars, modelStore, db, mem,
                 nextId, pending, runs, taken, preRun>>

\* ProcessWorkload: the lookup in clients
LookupClient(w) ==
  /\ ~crashed
  /\ wk[w].pc = "client"
  /\ IF clients[wk[w].model.provider] = NoClient
     THEN Return(w, "no client")
     ELSE /\ wk' = [wk EXCEPT ![w].pc = "call",
                              ![w].client = clients[wk[w].model.provider],
                              ![w].torn = (wk[w].torn
                                           \/ clients # wk[w].snap.clients)]
          /\ UNCHANGED <<done, last>>
  /\ UNCHANGED <<config, clock, agentVars, shopVars, dbUp, reinitVars, llmVars, registry, tuiVars, guiVars, modelStore, db, mem,
                 nextId, pending, runs, taken, preRun>>

\* the vendor call of the type switch returns an error
VendorError(w) ==
  /\ ~crashed
  /\ wk[w].pc = "call"
  /\ Return(w, "vendor error")
  /\ UNCHANGED <<config, clock, agentVars, shopVars, dbUp, reinitVars, llmVars, registry, tuiVars, guiVars, modelStore, db, mem,
                 nextId, pending, runs, taken, preRun>>

\* the OpenAI call returns no error and no choice: resp.Choices[0] is an
\* index out of range, the panic of the worker's goroutine ends the process
VendorEmpty(w) ==
  /\ ~crashed
  /\ wk[w].pc = "call"
  /\ wk[w].client.spec = "openai"
  /\ crashed' = TRUE
  /\ UNCHANGED <<config, clock, agentVars, shopVars, dbUp, llmVars, registry, tuiVars, guiVars, modelStore, db, mem,
                 nextId, pending, wk, runs, taken, done, preRun, last, initPc,
                 todo, inits>>

\* the vendor call returns a text; appendPayloadAndSave reads the row
VendorText(w, text) ==
  /\ ~crashed
  /\ wk[w].pc = "call"
  /\ IF ~dbUp \/ db[wk[w].id] = NoRow
     THEN Return(w, "get error")
     ELSE /\ wk' = [wk EXCEPT ![w].pc = "save", ![w].resp = text,
                              ![w].session = GetSession(db, wk[w].id)]
          /\ UNCHANGED <<done, last>>
  /\ UNCHANGED <<config, clock, agentVars, shopVars, dbUp, reinitVars, llmVars, registry, tuiVars, guiVars, modelStore, db, mem,
                 nextId, pending, runs, taken, preRun>>

\* fmt.Sprintf("%s\n\n---\n\n%s", payload, responseText)
AppendPayload(payload, text) == payload \o <<"SEP">> \o text

\* what appendPayloadAndSave writes back: the row it read, payload appended
WriteBack(session, text) ==
  [session EXCEPT !.payload = AppendPayload(session.payload, text)]

\* appendPayloadAndSave: db.AddSession(session)
SaveSession(w) ==
  /\ ~crashed
  /\ wk[w].pc = "save"
  /\ db' = Persist(wk[w].id, WriteBack(wk[w].session, wk[w].resp))
  /\ Return(w, IF dbUp THEN "saved" ELSE "save error")
  /\ UNCHANGED <<config, clock, agentVars, shopVars, dbUp, reinitVars, llmVars, registry, tuiVars, guiVars, modelStore, mem, nextId,
                 pending, runs, taken, preRun>>

\* ------------------------------------------------------------------ specification

Submitter ==
  \/ \E line \in Lines : TuiType(line)
  \/ \E c \in TuiChoices : TuiSessionStart(c.agentId, c.models)
  \/ \E id \in Ids : TuiRunId(id)
  \/ TuiRunCurrent
  \/ TuiSave
  \/ \E id \in Ids : TuiLoad(id)
  \/ \E m \in ModelUniverse : AddModel(m)
  \/ \E c \in GuiChoices : GuiCreate(c.agentId, c.models)
  \/ \E id \in Ids, t \in Texts : GuiEdit(id, t)
  \/ \E id \in Ids : GuiSave(id)
  \/ \E id \in Ids : GuiRun(id)
  \/ \E id \in Ids : GuiSchedule(id)
  \/ \E id \in Ids : GuiTick(id)
  \/ \E id \in Ids : GuiStop(id)
  \/ \E id \in Ids : GuiClose(id)

Pool ==
  \/ \E w \in Workers, s \in Senders : Receive(w, s)
  \/ \E w \in Workers : LookupModel(w)
  \/ \E w \in Workers : LookupClient(w)
  \/ \E w \in Workers : VendorError(w)
  \/ \E w \in Workers : VendorEmpty(w)
  \/ \E w \in Workers, t \in Responses : VendorText(w, t)
  \/ \E w \in Workers : SaveSession(w)

Next == Submitter \/ Pool

Spec == Init /\ [][Next]_vars

\* ------------------------------------------------------------------ provider router

\* the registered model lists: the rows of a models table, ids unique
ModelLists ==
  {l \in UNION {[1..n -> ModelUniverse] : n \in 0..MaxModels} :
     \A i, j \in DOMAIN l : i # j => l[i].id # l[j].id}
GeminiIds == {m.id : m \in {x \in ModelUniverse : x.apiSpec = "gemini"}}

\* the models lists of the workloads that reach the router
WorkloadModels ==
  {<<>>, <<"zz">>, <<"m2", "m1">>} \cup {<<m>> : m \in ModelIds}

\* runWorker calls ProcessWorkload(workload) for a workload of these models
Enter(w, id, models) ==
  /\ ~crashed
  /\ w <= loops
  /\ wk[w].pc = "idle"
  /\ SumTo(taken, MaxSessions) < MaxRuns
  /\ wk' = [wk EXCEPT ![w] = Called(id, models)]
  /\ taken' = [taken EXCEPT ![id] = @ + 1]
  /\ UNCHANGED <<config, clock, agentVars, shopVars, dbUp, registry, tuiVars, guiVars, reinitVars, llmVars,
                 modelStore, db, mem, nextId, pending, runs, done, preRun, last>>

\* GenerateContentWithSystemPrompt(workload, input, system_prompt)
\* with the vendor giving o; the index out of range on a response without
\* choices ends the process
LLMGenerate(models, o) ==
  /\ ~crashed
  /\ gen' = Returned(Generate(llm, models), o)
  /\ gen' # gen
  /\ crashed' = gen'.panic
  /\ UNCHANGED <<config, clock, agentVars, shopVars, dbUp, registry, tuiVars, guiVars, initPc, todo, inits, llm,
                 modelStore, db, mem, nextId, pending, wk, runs, taken, done,
                 preRun, last>>

\* which front end the process has and how many workers does not enter the
\* lookups of one worker
RouterInit ==
  /\ \E models \in ModelLists, fails \in SUBSET GeminiIds :
       Registered(models, fails)
  /\ Started
  /\ ui = "tui"
  /\ numWorkers = NumWorkers

RouterNext ==
  \/ \E models \in WorkloadModels : Enter(1, 1, models)
  \/ LookupModel(1)
  \/ LookupClient(1)
  \/ VendorError(1)
  \/ VendorEmpty(1)
  \/ \E t \in Responses : VendorText(1, t)
  \/ \E models \in WorkloadModels, o \in VendorOutcomes : LLMGenerate(models, o)

\* every registry, and the calls that resolve a model and a client in it
RouterSpec == RouterInit /\ [][RouterNext]_vars

\* the registries in which every client creation succeeds
RegistryInit ==
  /\ \E models \in ModelLists : Registered(models, {})
  /\ Started
  /\ ui = "tui"
  /\ numWorkers = NumWorkers

RegistrySpec == RegistryInit /\ [][RouterNext]_vars

\* ------------------------------------------------------------------ reinitialization

ReinitLists == {<<M1, M2, M4>>, <<M3, M1>>}

\* worker.Init is called while the pool runs: `clients = make(...)`
ReinitBegin(models) ==
  /\ ~crashed
  /\ initPc = "idle"
  /\ inits < MaxReinits
  /\ inits' = inits + 1
  /\ clients' = EmptyRegistry.clients
  /\ todo' = models
  /\ initPc' = "make"
  /\ UNCHANGED <<config, clock, agentVars, shopVars, dbUp, tuiVars, guiVars, llmVars, crashed, modelInfo,
                 modelStore, db, mem, nextId, pending, wk, runs, taken, done,
                 preRun, last>>

\* `modelInfo = make(...)`
ReinitMake ==
  /\ ~crashed
  /\ initPc = "make"
  /\ modelInfo' = EmptyRegistry.modelInfo
  /\ initPc' = "model"
  /\ UNCHANGED <<config, clock, agentVars, shopVars, dbUp, tuiVars, guiVars, llmVars, crashed, inits, todo,
                 clients, modelStore, db, mem, nextId, pending, wk, runs,
                 taken, done, preRun, last>>

\* the loop's `modelInfo[model.ID] = model`, or the return after the loop
ReinitPutModel ==
  /\ ~crashed
  /\ initPc = "model"
  /\ IF todo = <<>>
     THEN /\ initPc' = "idle"
          /\ UNCHANGED modelInfo
     ELSE /\ initPc' = "client"
          /\ modelInfo' = InitStep([modelInfo |-> modelInfo,
                                    clients |-> clients],
                                   Head(todo), {}).modelInfo
  /\ UNCHANGED <<config, clock, agentVars, shopVars, dbUp, tuiVars, guiVars, llmVars, crashed, inits, todo,
                 clients, modelStore, db, mem, nextId, pending, wk, runs,
                 taken, done, preRun, last>>

\* the rest of the loop's iteration: `clients[model.Provider] = client`
ReinitPutClient ==
  /\ ~crashed
  /\ initPc = "client"
  /\ clients' = InitStep([modelInfo |-> modelInfo, clients |-> clients],
                         Head(todo), {}).clients
  /\ todo' = Tail(todo)
  /\ initPc' = "model"
  /\ UNCHANGED <<config, clock, agentVars, shopVars, dbUp, tuiVars, guiVars, llmVars, crashed, inits,
                 modelInfo, modelStore, db, mem, nextId, pending, wk, runs,
                 taken, done, preRun, last>>

\* a worker reads a map while Init writes it: the runtime may end the
\* process ("concurrent map read and map write")
MapFault(w) ==
  /\ ~crashed
  /\ \/ wk[w].pc = "start" /\ initPc = "model" /\ todo # <<>>
     \/ wk[w].pc = "client" /\ initPc = "client"
  /\ crashed' = TRUE
  /\ UNCHANGED <<config, clock, agentVars, shopVars, dbUp, registry, tuiVars, guiVars, llmVars, initPc, todo,
                 inits, modelStore, db, mem, nextId, pending, wk, runs, taken,
                 done, preRun, last>>

ReinitNext ==
  \/ \E w \in Workers, models \in WorkloadModels : Enter(w, 1, models)
  \/ \E w \in Workers : LookupModel(w)
  \/ \E w \in Workers : LookupClient(w)
  \/ \E w \in Workers : VendorError(w)
  \/ \E w \in Workers : VendorEmpty(w)
  \/ \E w \in Workers, t \in Responses : VendorText(w, t)
  \/ \E models \in ReinitLists : ReinitBegin(models)
  \/ ReinitMake
  \/ ReinitPutModel
  \/ ReinitPutClient
  \/ \E w \in Workers : MapFault(w)

\* the pool with a caller that initializes the registry again
ReinitSpec == Init /\ [][ReinitNext]_vars

\* ------------------------------------------------------------------ price drops

ProductNames == {"Widget", "Gadget"}
Prices == {7, 8, 9, 10}
\* sampling dates, in seconds; 0 is the zero time.Time
Dates == 1..MaxDate
\* the readings of time.Now() by InsertProduct's caller, in half seconds:
\* a reading falls within a second, not on it
Clock == {2 * d + 1 : d \in Dates}

\* date.Format(time.RFC3339), read back by time.Parse: whole seconds
RFC3339(now) == now \div 2

\* ShoppingDB.InsertProduct(name, price, date, source, url)
InsertProduct(name, price, now) ==
  /\ Len(products) < MaxProducts
  /\ products' = Append(products, [name |-> name, price |-> price,
                                   date |-> RFC3339(now)])
  /\ UNCHANGED <<config, clock, agentVars, dbUp, registry, tuiVars, guiVars, reinitVars, llmVars,
                 seen, notes, modelStore, db, mem, nextId, pending, wk, runs,
                 taken, done, preRun, last>>

\* productsByName[p.Name]: the rows of one name, in row order
GroupOf(ps, name) == SelectSeq(ps, LAMBDA p : p.name = name)

\* sort.Slice(productList, ... Date.Before ...); the order it leaves among
\* rows of one date decides only which row's URL is shown
RECURSIVE InsertByDate(_, _)
InsertByDate(sorted, p) ==
  IF sorted = <<>> THEN <<p>>
  ELSE IF p.date < Head(sorted).date THEN <<p>> \o sorted
  ELSE <<Head(sorted)>> \o InsertByDate(Tail(sorted), p)

RECURSIVE SortByDate(_)
SortByDate(list) ==
  IF list = <<>> THEN <<>>
  ELSE InsertByDate(SortByDate(SubSeq(list, 1, Len(list) - 1)),
                    list[Len(list)])

\* the rows of the list with Date.Equal(period)
AtPeriod(list, period) == SelectSeq(list, LAMBDA p : p.date = period)

\* the loops `if p.Price < lowest { lowest = p.Price }` over a list of rows
RECURSIVE LowestFrom(_, _)
LowestFrom(lowest, list) ==
  IF list = <<>> THEN lowest
  ELSE LowestFrom(IF Head(list).price < lowest THEN Head(list).price
                  ELSE lowest, Tail(list))
Lowest(list) == LowestFrom(list[1].price, list)

\* the loop from the end of the sorted list for a date before the most
\* recent one; the zero time when there is none
RECURSIVE PreviousFrom(_, _, _)
PreviousFrom(list, i, mostRecent) ==
  IF i = 0 THEN 0
  ELSE IF list[i].date < mostRecent THEN list[i].date
  ELSE PreviousFrom(list, i - 1, mostRecent)

\* the slip of taking the oldest date for the previous one
PreviousOldest(list, mostRecent) ==
  IF list[1].date < mostRecent THEN list[1].date ELSE 0
PreviousPeriod(list, mostRecent) == PreviousFrom(list, Len(list), mostRecent)

\* `if lowestRecentPrice < lowestPreviousPrice`
IsDrop(recent, previous) == recent < previous

\* the body of the loop over productsByName: the notifications of one name
\* the slip of comparing the newest row with the oldest row, not two periods
NotesByRows(name, group) ==
  LET list == SortByDate(group)
  IN IF Len(list) < 2 THEN {}
     ELSE IF IsDrop(list[Len(list)].price, list[1].price)
     THEN {[name |-> name, now |-> list[Len(list)].price,
            was |-> list[1].price]}
     ELSE {}

NotesOf(name, group) ==
  LET list == SortByDate(group)
      mostRecent == list[Len(list)].date
      previous == PreviousPeriod(list, mostRecent)
  IN IF Len(list) < 2 THEN {}
     ELSE IF AtPeriod(list, mostRecent) = <<>> THEN {}
     ELSE IF previous = 0 THEN {}
     ELSE IF AtPeriod(list, previous) = <<>> THEN {}
     ELSE IF IsDrop(Lowest(AtPeriod(list, mostRecent)),
                    Lowest(AtPeriod(list, previous)))
     THEN {[name |-> name, now |-> Lowest(AtPeriod(list, mostRecent)),
            was |-> Lowest(AtPeriod(list, previous))]}
     ELSE {}

\* the notifications ShoppingNotificationAgent.DoWork builds from the rows
Notifications(ps) ==
  UNION {NotesOf(name, GroupOf(ps, name)) :
           name \in {ps[i].name : i \in DOMAIN ps}}

\* ------------------------------------------------------------------ agents

\* fmt.Sprintf("%.2f", price), for the whole-number prices of Prices
Money(price) == ToString(price) \o ".00"

\* the notification line of one drop; the row's URL column is NULL
NoteLine(n) ==
  "Price drop for " \o n.name \o ": $" \o Money(n.now) \o " (was $"
    \o Money(n.was) \o "). URL: N/A"

\* strings.Join(lines, sep)
RECURSIVE Join(_, _)
Join(lines, sep) ==
  IF lines = <<>> THEN ""
  ELSE IF Len(lines) = 1 THEN lines[1]
  ELSE lines[1] \o sep \o Join(Tail(lines), sep)

\* the orders in which `range productsByName` can visit the groups: the
\* notifications slice holds the lines of ns in one of them
Orders(ns) ==
  {o \in [1..Cardinality(ns) -> ns] :
     \A i, j \in DOMAIN o : i # j => o[i] # o[j]}

\* the joined lines alone
JoinedLines(order) ==
  Join([i \in DOMAIN order |-> NoteLine(order[i])], "\n")

\* fullMessage, from the notifications in slice order
FullMessage(order) ==
  "Nieve AI alerts:\n" \o Join([i \in DOMAIN order |-> NoteLine(order[i])], "\n")

NoDrops == "No price drops detected."

\* a return that hands back an empty payload with an error
EndedCleared(agent, workload, client, payload, result, step, calls, touched) ==
  [agent |-> agent, workload |-> workload, client |-> client,
   payload |-> IF result = "error" THEN <<>> ELSE payload, result |-> result,
   step |-> step, calls |-> calls, touched |-> touched, mail |-> ""]

\* how a DoWork call ended, as its caller sees it
Ended(agent, workload, client, payload, result, step, calls, touched) ==
  [agent |-> agent, workload |-> workload, client |-> client,
   payload |-> payload, result |-> result, step |-> step, calls |-> calls,
   touched |-> touched, mail |-> ""]

\* workload.Config of the analyzer's workload: none, not JSON, an SmtpConfig
Configs == {"", "{", "smtp"}

\* a mail step that does not look at the configuration
MailAlways(cfg, sent) == IF sent THEN "sent" ELSE "send failed"

\* the mail step of the analyzer, after the payload is written
Mail(cfg, sent) ==
  IF cfg = "" THEN "skipped"
  ELSE IF cfg = "{" THEN "bad config"
  ELSE IF sent THEN "sent" ELSE "send failed"

\* ShoppingNotificationAgent.DoWork(workload, genAIClient). got: GetAllProducts
\* returns the rows; order: the slice of notifications; sent: SendMail works
NotificationDoWork(workload, client, got, order, sent) ==
  /\ order \in Orders(Notifications(products))
  /\ IF ~got
       THEN /\ job' = Ended("ShoppingNotificationAgent", workload, client,
                            workload.payload, "error", "failed to get products",
                            0, TRUE)
            /\ UNCHANGED <<seen, notes>>
       ELSE /\ seen' = products
            /\ notes' = Notifications(products)
            /\ job' =
                 IF workload.nil
                   THEN Ended("ShoppingNotificationAgent", workload, client,
                              workload.payload, "panic", "nil pointer", 0, TRUE)
                 ELSE IF order # <<>>
                   THEN [Ended("ShoppingNotificationAgent", workload, client,
                               <<FullMessage(order)>>, "ok", "", 0, TRUE)
                           EXCEPT !.mail = Mail(workload.config, sent)]
                 ELSE Ended("ShoppingNotificationAgent", workload, client,
                            <<NoDrops>>, "ok", "", 0, TRUE)
  /\ UNCHANGED <<config, clock, graph, dbUp, registry, tuiVars, guiVars, reinitVars,
                 llmVars, products, modelStore, db, mem, nextId, pending, wk,
                 runs, taken, done, preRun, last>>

\* what separates the instruction from the answer in a payload
Separator == "\n\n---\n\n"

\* an answer of the model: the call's error, or its text in chunks (prose,
\* brackets, JSON objects)
Reply(text) == [err |-> FALSE, text |-> text]
ReplyError == [err |-> TRUE, text |-> <<>>]

\* the index of the first (last) chunk c of text, 0 if there is none
FirstOf(text, c) ==
  IF \E i \in DOMAIN text : text[i] = c
    THEN CHOOSE i \in DOMAIN text :
           text[i] = c /\ \A j \in DOMAIN text : text[j] = c => i <= j
    ELSE 0
LastOf(text, c) ==
  IF \E i \in DOMAIN text : text[i] = c
    THEN CHOOSE i \in DOMAIN text :
           text[i] = c /\ \A j \in DOMAIN text : text[j] = c => j <= i
    ELSE 0

\* extractJSONArray: the match of (?s)\[.*\], from the first "[" to the last
\* "]" behind it; the empty text if there is none
extractJSONArray(text) ==
  IF FirstOf(text, "[") = 0 \/ LastOf(text, "]") < FirstOf(text, "[")
    THEN <<>>
    ELSE SubSeq(text, FirstOf(text, "["), LastOf(text, "]"))

\* json.Unmarshal of an extracted array into a slice: it fails unless the
\* brackets enclose objects only. objects: chunk -> the struct it decodes to
Parses(array, objects) ==
  \A i \in 2..(Len(array) - 1) : array[i] \in DOMAIN objects
Unmarshal(array, objects) ==
  [i \in 1..(Len(array) - 2) |-> objects[array[i + 1]]]

\* a chat agent that asks the model again when its call fails
ChatAsksAgain(workload, client, reply) ==
  /\ job' =
       IF workload.nil
         THEN Ended("ChatAgent", workload, client, workload.payload, "error",
                    "workload is nil", 0, FALSE)
       ELSE IF ~client
         THEN Ended("ChatAgent", workload, client, workload.payload, "error",
                    "genAIClient is nil", 0, FALSE)
       ELSE IF reply.err
         THEN Ended("ChatAgent", workload, client, workload.payload, "error",
                    "error generating content", 2, FALSE)
       ELSE Ended("ChatAgent", workload, client,
                  workload.payload \o <<Separator>> \o reply.text, "ok", "", 1,
                  FALSE)
  /\ UNCHANGED <<config, clock, graph, shopVars, dbUp, registry, tuiVars, guiVars,
                 reinitVars, llmVars, modelStore, db, mem, nextId, pending, wk,
                 runs, taken, done, preRun, last>>

\* ChatAgent.DoWork(workload, genAIClient)
ChatDoWork(workload, client, reply) ==
  /\ job' =
       IF workload.nil
         THEN Ended("ChatAgent", workload, client, workload.payload, "error",
                    "workload is nil", 0, FALSE)
       ELSE IF ~client
         THEN Ended("ChatAgent", workload, client, workload.payload, "error",
                    "genAIClient is nil", 0, FALSE)
       ELSE IF reply.err
         THEN Ended("ChatAgent", workload, client, workload.payload, "error",
                    "error generating content", 1, FALSE)
       ELSE Ended("ChatAgent", workload, client,
                  workload.payload \o <<Separator>> \o reply.text, "ok", "", 1,
                  FALSE)
  /\ UNCHANGED <<config, clock, graph, shopVars, dbUp, registry, tuiVars, guiVars,
                 reinitVars, llmVars, modelStore, db, mem, nextId, pending, wk,
                 runs, taken, done, preRun, last>>

\* the CompanyRelationship objects of the answers; relationship holds the
\* pieces strings.Split(rel.Relationship, ",") gives
CompanyObjects ==
  [o \in {"nvidia"} |->
     [name |-> "nvidia", relationship |-> <<" ", "key customer">>]]

\* sanitizeRelationshipType: trimmed, upper case, "_" for " "
sanitizeRelationshipType(s) ==
  CASE s = "key customer" -> "KEY_CUSTOMER"
    [] s = " " -> ""

\* the relationships the loops of updateRelationshipsInNeo4j handle, in order
RECURSIVE EdgesOf(_, _)
EdgesOf(sessionName, relationships) ==
  IF relationships = <<>> THEN <<>>
  ELSE LET rel == Head(relationships)
           types == SelectSeq([i \in DOMAIN rel.relationship |->
                                 sanitizeRelationshipType(rel.relationship[i])],
                              LAMBDA t : t # "")
       IN [i \in DOMAIN types |->
             [from |-> rel.name, type |-> types[i], to |-> sessionName]]
            \o EdgesOf(sessionName, Tail(relationships))

\* the summary line of one relationship, by how its transaction ended
SummaryLine(e, ok) ==
  IF ok
    THEN "Added relationship: " \o e.from \o " -[" \o e.type \o "]-> "
           \o e.to \o "\n"
    ELSE "Failed to add relationship: " \o e.from \o " -[" \o e.type \o "]-> "
           \o e.to \o ". Error\n"

\* updateRelationshipsInNeo4j: the summary; failed: the positions, in the
\* order of the loops, of the transactions that return an error
Summary(edges, failed) ==
  Join([i \in DOMAIN edges |-> SummaryLine(edges[i], i \notin failed)], "")

\* the edges its transactions MERGE
Merged(edges, failed) ==
  {edges[i] : i \in DOMAIN edges \ failed}

\* CompanyRelationshipAgent.DoWork(workload, genAIClient)
CompanyDoWork(workload, client, reply, failed) ==
  LET array == extractJSONArray(reply.text)
      edges == EdgesOf(workload.name, Unmarshal(array, CompanyObjects))
      stop(step, calls) ==
        Ended("CompanyRelationshipAgent", workload, client, workload.payload,
              "error", step, calls, FALSE)
      early == workload.nil \/ ~client \/ workload.name = "" \/ reply.err
                 \/ array = <<>> \/ ~Parses(array, CompanyObjects)
  IN /\ job' =
          IF workload.nil THEN stop("workload is nil", 0)
          ELSE IF ~client THEN stop("genAIClient is nil", 0)
          ELSE IF workload.name = "" THEN stop("workload name is empty", 0)
          ELSE IF reply.err THEN stop("error generating content", 1)
          ELSE IF array = <<>> THEN stop("no JSON array found", 1)
          ELSE IF ~Parses(array, CompanyObjects)
            THEN stop("failed to parse JSON", 1)
          ELSE Ended("CompanyRelationshipAgent", workload, client,
                     workload.payload \o <<Separator>> \o reply.text
                       \o <<"\n\nProcessed Relationships:\n">>
                       \o <<Summary(edges, failed)>>,
                     "ok", "", 1, TRUE)
     /\ graph' = IF early THEN graph ELSE graph \cup Merged(edges, failed)
     /\ UNCHANGED <<config, clock, shopVars, dbUp, registry, tuiVars, guiVars,
                    reinitVars, llmVars, modelStore, db, mem, nextId, pending,
                    wk, runs, taken, done, preRun, last>>

\* the ShoppingResult objects of the answers
ShoppingObjects ==
  [o \in {"W10", "W7", "G10", "G8"} |->
     CASE o = "W10" -> [name |-> "Widget", price |-> 10]
       [] o = "W7" -> [name |-> "Widget", price |-> 7]
       [] o = "G10" -> [name |-> "Gadget", price |-> 10]
       [] o = "G8" -> [name |-> "Gadget", price |-> 8]]

\* the chunks of an instruction that match https?://[^\s]+
URLs == {"http://shop"}

\* extractURL: the first URL of the instruction, "" if it has none
extractURL(input) ==
  IF \E i \in DOMAIN input : input[i] \in URLs
    THEN input[CHOOSE i \in DOMAIN input :
                 input[i] \in URLs
                   /\ \A j \in DOMAIN input : input[j] \in URLs => i <= j]
    ELSE ""

\* a loop that keeps one row, the newest sample, instead of the history
KeepsNewest(ps, results, nows, oks, i) ==
  IF results = <<>> \/ 1 \notin oks THEN ps
  ELSE <<[name |-> results[1].name, price |-> results[1].price,
          date |-> RFC3339(nows[1])]>>

\* the rows the loop over the results leaves in the table; nows: the reading
\* of time.Now() for each result; oks: the results whose insert succeeds
RECURSIVE Inserts(_, _, _, _, _)
Inserts(ps, results, nows, oks, i) ==
  IF i > Len(results) THEN ps
  ELSE Inserts(IF i \in oks
                 THEN Append(ps, [name |-> results[i].name,
                                  price |-> results[i].price,
                                  date |-> RFC3339(nows[i])])
                 ELSE ps,
               results, nows, oks, i + 1)

\* ShoppingAgent.DoWork(workload, genAIClient); fetched: getHTMLFromURL
\* returns the page
ShoppingDoWork(workload, client, fetched, reply, nows, oks) ==
  LET array == extractJSONArray(reply.text)
      results == Unmarshal(array, ShoppingObjects)
      stop(step, calls) ==
        Ended("ShoppingAgent", workload, client, workload.payload, "error",
              step, calls, FALSE)
      early == workload.nil \/ ~client \/ workload.name = ""
                 \/ (extractURL(workload.payload) # "" /\ ~fetched)
                 \/ reply.err \/ array = <<>>
                 \/ ~Parses(array, ShoppingObjects)
  IN /\ job' =
          IF workload.nil THEN stop("workload is nil", 0)
          ELSE IF ~client THEN stop("genAIClient is nil", 0)
          ELSE IF workload.name = "" THEN stop("workload name is empty", 0)
          ELSE IF extractURL(workload.payload) # "" /\ ~fetched
            THEN stop("failed to get HTML from URL", 0)
          ELSE IF reply.err THEN stop("error generating content", 1)
          ELSE IF array = <<>> THEN stop("no JSON array found", 1)
          ELSE IF ~Parses(array, ShoppingObjects)
            THEN stop("failed to parse JSON", 1)
          ELSE Ended("ShoppingAgent", workload, client, workload.payload,
                     "ok", "", 1, results # <<>>)
     /\ products' = IF early THEN products
                    ELSE Inserts(products, results, nows, oks, 1)
     /\ Len(products') <= MaxRows
     /\ UNCHANGED <<config, clock, graph, seen, notes, dbUp, registry, tuiVars,
                    guiVars, reinitVars, llmVars, modelStore, db, mem, nextId,
                    pending, wk, runs, taken, done, preRun, last>>

\* the workloads handed to the agents
ChatWorkloads == {NilWorkload, Workload("Widget", <<"t1">>, "")}
CompanyWorkloads ==
  {NilWorkload} \cup {Workload(n, <<"t1">>, "") : n \in {"", "Widget"}}
ShoppingWorkloads ==
  CompanyWorkloads \cup {Workload("Widget", <<"http://shop">>, "")}
AnalyzerWorkloads ==
  {NilWorkload} \cup {Workload("Widget", <<"t1">>, c) : c \in Configs}

\* the answers of the model
ChatReplies == {ReplyError, Reply(<<"r1">>)}
CompanyReplies ==
  {ReplyError, Reply(<<"r1">>), Reply(<<"r1", "[", "nvidia", "]">>),
   Reply(<<"[", "r1", "]">>), Reply(<<"[", "]">>)}
ShoppingReplies ==
  {ReplyError, Reply(<<"r1">>), Reply(<<"r1", "[", "W10", "G10", "]">>),
   Reply(<<"[", "W7", "G8", "]", "r1">>), Reply(<<"[", "r1", "]">>),
   Reply(<<"[", "W7", "]", "[", "G8", "]">>), Reply(<<"[", "]">>)}

\* how many results an answer decodes to
ResultCount(reply, objects) ==
  IF Parses(extractJSONArray(reply.text), objects)
       /\ extractJSONArray(reply.text) # <<>>
    THEN Len(extractJSONArray(reply.text)) - 2
    ELSE 0

\* the outcomes of the page fetch, of the clock and of the inserts that a
\* call with these arguments can meet
Fetches(workload) ==
  IF extractURL(workload.payload) = "" THEN {TRUE} ELSE BOOLEAN
Readings(reply) ==
  IF ResultCount(reply, ShoppingObjects) = 0 THEN {CHOOSE c \in Clock : TRUE}
  ELSE Clock
Ups(reply) ==
  IF ResultCount(reply, ShoppingObjects) = 0 THEN {TRUE} ELSE BOOLEAN

AgentNext ==
  \/ \E workload \in ChatWorkloads, client \in BOOLEAN, reply \in ChatReplies :
       ChatDoWork(workload, client, reply)
  \/ \E workload \in CompanyWorkloads, client \in BOOLEAN,
        reply \in CompanyReplies :
       \E failed \in SUBSET (1..ResultCount(reply, CompanyObjects)) :
         CompanyDoWork(workload, client, reply, failed)
  \/ \E workload \in ShoppingWorkloads, client \in BOOLEAN,
        reply \in ShoppingReplies :
       \E fetched \in Fetches(workload), now \in Readings(reply),
          up \in Ups(reply) :
         ShoppingDoWork(workload, client, fetched, reply,
                        [i \in 1..ResultCount(reply, ShoppingObjects) |-> now],
                        IF up THEN 1..ResultCount(reply, ShoppingObjects)
                        ELSE {})
  \/ \E workload \in AnalyzerWorkloads, client \in BOOLEAN, got \in BOOLEAN,
        sent \in BOOLEAN, order \in Orders(Notifications(products)) :
       NotificationDoWork(workload, client, got, order, sent)

\* the agents are called in a started process
AgentInit ==
  /\ Init
  /\ ui = "tui"
  /\ numWorkers = NumWorkers

AgentSpec == AgentInit /\ [][AgentNext]_vars


\* the analysis of a table that changed since the last one, for a workload and
\* a products database that are there
Analyze ==
  /\ seen # products
  /\ \E order \in Orders(Notifications(products)) :
       NotificationDoWork(Workload("Widget", <<"t1">>, ""), TRUE, TRUE, order,
                          TRUE)

ShopNext ==
  \/ \E name \in ProductNames, price \in Prices, now \in Clock :
       InsertProduct(name, price, now)
  \/ Analyze

\* the analysis runs in a started process; which front end it has and how
\* many workers does not enter it
ShopInit ==
  /\ Init
  /\ ui = "tui"
  /\ numWorkers = NumWorkers

\* the product history and the price-drop analysis of it
ShopSpec == ShopInit /\ [][ShopNext]_vars

\* ------------------------------------------------------------------ datastore faults

\* sessions.db stops answering (the file is locked, the disk is full)
DbFail ==
  /\ ~crashed
  /\ dbUp
  /\ dbUp' = FALSE
  /\ UNCHANGED <<config, clock, agentVars, shopVars, reinitVars, llmVars, registry, tuiVars, guiVars, modelStore, db, mem,
                 nextId, pending, wk, runs, taken, done, preRun, last>>

\* sessions.db answers again
DbRecover ==
  /\ ~crashed
  /\ ~dbUp
  /\ dbUp' = TRUE
  /\ UNCHANGED <<config, clock, agentVars, shopVars, reinitVars, llmVars, registry, tuiVars, guiVars, modelStore, db, mem,
                 nextId, pending, wk, runs, taken, done, preRun, last>>

FaultNext ==
  \/ DbFail
  \/ DbRecover
  \/ \E line \in Lines : TuiType(line)
  \/ \E c \in TuiChoices : TuiSessionStart(c.agentId, c.models)
  \/ \E id \in Ids : TuiRunId(id)
  \/ TuiRunCurrent
  \/ \E w \in Workers, s \in Senders : Receive(w, s)
  \/ \E w \in Workers : LookupModel(w)
  \/ \E w \in Workers : LookupClient(w)
  \/ \E w \in Workers : VendorError(w)
  \/ \E w \in Workers : VendorEmpty(w)
  \/ \E w \in Workers, t \in Responses : VendorText(w, t)
  \/ \E w \in Workers : SaveSession(w)

\* sessions started and run from the text controller, and the pool, with a
\* sessions database that may stop answering
FaultSpec == Init /\ [][FaultNext]_vars

\* ------------------------------------------------------------------ fair pool

\* one worker's loop: the receive and the steps of ProcessWorkload
WorkerStep(w) ==
  \/ \E s \in Senders : Receive(w, s)
  \/ LookupModel(w)
  \/ LookupClient(w)
  \/ VendorError(w)
  \/ VendorEmpty(w)
  \/ \E t \in Responses : VendorText(w, t)
  \/ SaveSession(w)

\* the text controller's run of new sessions, and the pool
FairNext ==
  \/ \E line \in Lines : TuiType(line)
  \/ \E c \in TuiChoices : TuiSessionStart(c.agentId, c.models)
  \/ \E id \in Ids : TuiRunId(id)
  \/ TuiRunCurrent
  \/ \E w \in Workers : WorkerStep(w)

\* every started worker goroutine keeps running and every vendor call returns
FairSpec ==
  /\ Init
  /\ [][FairNext]_vars
  /\ \A w \in Workers : WF_vars(WorkerStep(w))

\* ------------------------------------------------------------------ saves and runs

\* a second passes on the wall clock
Tick ==
  /\ clock < MaxClock
  /\ clock' = clock + 1
  /\ UNCHANGED <<config, registry, tuiVars, guiVars, reinitVars, llmVars,
                 shopVars, agentVars, dbUp, modelStore, db, mem, nextId,
                 pending, wk, runs, taken, done, preRun, last>>

\* the user creates, edits, saves and runs sessions in either front end
\* while the clock runs and the pool works
SaveNext ==
  \/ Tick
  \/ \E line \in Lines : TuiType(line)
  \/ \E c \in TuiChoices : TuiSessionStart(c.agentId, c.models)
  \/ TuiRunCurrent
  \/ TuiSave
  \/ \E c \in GuiChoices : GuiCreate(c.agentId, c.models)
  \/ \E id \in Ids, t \in Texts : GuiEdit(id, t)
  \/ \E id \in Ids : GuiSave(id)
  \/ \E id \in Ids : GuiRun(id)
  \/ \E w \in Workers, s \in Senders : Receive(w, s)
  \/ \E w \in Workers : LookupModel(w)
  \/ \E w \in Workers : LookupClient(w)
  \/ \E w \in Workers : VendorError(w)
  \/ \E w \in Workers, t \in Responses : VendorText(w, t)
  \/ \E w \in Workers : SaveSession(w)

SaveSpec == Init /\ [][SaveNext]_vars

\* ------------------------------------------------------------------ admission

\* sessions are run by hand and by schedules, in either front end, and the
\* pool takes them
QueueNext ==
  \/ \E c \in TuiChoices : TuiSessionStart(c.agentId, c.models)
  \/ \E id \in Ids : TuiRunId(id)
  \/ TuiRunCurrent
  \/ \E c \in GuiChoices : GuiCreate(c.agentId, c.models)
  \/ \E id \in Ids : GuiRun(id)
  \/ \E id \in Ids : GuiSchedule(id)
  \/ \E id \in Ids : GuiTick(id)
  \/ \E id \in Ids : GuiStop(id)
  \/ \E w \in Workers, s \in Senders : Receive(w, s)
  \/ \E w \in Workers : LookupModel(w)
  \/ \E w \in Workers : LookupClient(w)
  \/ \E w \in Workers : VendorError(w)
  \/ \E w \in Workers : VendorEmpty(w)
  \/ \E w \in Workers, t \in Responses : VendorText(w, t)
  \/ \E w \in Workers : SaveSession(w)

QueueSpec == Init /\ [][QueueNext]_vars

\* ------------------------------------------------------------------- shutdown

\* the ways the controller process is ended by its user
Exits == {"quit", "close", "signal"}

\* "/quit" calls os.Exit(0), closing the window makes ShowAndRun and main
\* return, a termination signal is not handled: in each case the process ends
\* at once, with the worker goroutines wherever they are
Exit(how) ==
  /\ ~crashed
  /\ how = "quit" => ui = "tui" /\ UiFree
  /\ how = "close" => ui = "gui" /\ UiFree
  /\ crashed' = TRUE
  /\ UNCHANGED <<config, clock, agentVars, shopVars, dbUp, llmVars, registry, tuiVars, guiVars, modelStore, db, mem,
                 nextId, pending, wk, runs, taken, done, preRun, last, initPc,
                 todo, inits>>

\* sessions are run in either front end, the pool processes them, and the
\* user ends the process at any moment
QuitNext ==
  \/ \E c \in TuiChoices : TuiSessionStart(c.agentId, c.models)
  \/ \E id \in Ids : TuiRunId(id)
  \/ TuiRunCurrent
  \/ \E c \in GuiChoices : GuiCreate(c.agentId, c.models)
  \/ \E id \in Ids : GuiRun(id)
  \/ \E w \in Workers, s \in Senders : Receive(w, s)
  \/ \E w \in Workers : LookupModel(w)
  \/ \E w \in Workers : LookupClient(w)
  \/ \E w \in Workers : VendorError(w)
  \/ \E w \in Workers, t \in Responses : VendorText(w, t)
  \/ \E w \in Workers : SaveSession(w)
  \/ \E how \in Exits : Exit(how)

QuitSpec == Init /\ [][QuitNext]_vars

\* ------------------------------------------------------------------- pool size

MaxFlag == 2
MaxConfig == 2

\* what the -workers flag and the "workers" key of config.json can hold
FlagValues == -1..MaxFlag
ConfigValues == -1..MaxConfig

\* main: one round of the loop that starts the runWorker goroutines
StartWorker ==
  /\ ~crashed
  /\ loops < numWorkers
  /\ loops' = loops + 1
  /\ UNCHANGED <<ui, flagWorkers, cfgWorkers, numWorkers, clock, agentVars, shopVars, dbUp, llmVars, registry, tuiVars,
                 guiVars, modelStore, db, mem, nextId, pending, wk, runs,
                 taken, done, preRun, last, reinitVars>>

\* main has read the flag and the configuration file and starts its pool
PoolInit ==
  /\ Registered(StartupModels, {})
  /\ flagWorkers \in FlagValues
  /\ cfgWorkers \in ConfigValues
  /\ numWorkers = WorkersOf(flagWorkers, cfgWorkers)
  /\ loops = 0
  /\ Loaded

\* the front end runs once the pool is started (p.Run, ShowAndRun)
PoolNext ==
  \/ StartWorker
  \/ PoolStarted /\ \E c \in TuiChoices : TuiSessionStart(c.agentId, c.models)
  \/ PoolStarted /\ \E id \in Ids : TuiRunId(id)
  \/ PoolStarted /\ \E c \in GuiChoices : GuiCreate(c.agentId, c.models)
  \/ PoolStarted /\ \E id \in Ids : GuiRun(id)
  \/ \E w \in Workers, s \in Senders : Receive(w, s)
  \/ \E w \in Workers : LookupModel(w)
  \/ \E w \in Workers : LookupClient(w)
  \/ \E w \in Workers : VendorError(w)
  \/ \E w \in Workers, t \in Responses : VendorText(w, t)
  \/ \E w \in Workers : SaveSession(w)

PoolSpec == PoolInit /\ [][PoolNext]_vars

\* ------------------------------------------------------------------- added models

\* models are added after startup, sessions are created and run on them
AddNext ==
  \/ \E m \in ModelUniverse : AddModel(m)
  \/ \E c \in TuiChoices : TuiSessionStart(c.agentId, c.models)
  \/ \E id \in Ids : TuiRunId(id)
  \/ \E c \in GuiChoices : GuiCreate(c.agentId, c.models)
  \/ \E id \in Ids : GuiRun(id)
  \/ \E w \in Workers, s \in Senders : Receive(w, s)
  \/ \E w \in Workers : LookupModel(w)
  \/ \E w \in Workers : LookupClient(w)
  \/ \E w \in Workers : VendorError(w)
  \/ \E w \in Workers, t \in Responses : VendorText(w, t)
  \/ \E w \in Workers : SaveSession(w)

AddSpec == Init /\ [][AddNext]_vars

\* ------------------------------------------------------------------- schedules

\* sessions are scheduled, stopped and closed in the window while their
\* tickers fire and the pool works
SchedNext ==
  \/ \E c \in GuiChoices : GuiCreate(c.agentId, c.models)
  \/ \E id \in Ids : GuiRun(id)
  \/ \E id \in Ids : GuiSchedule(id)
  \/ \E id \in Ids : GuiTick(id)
  \/ \E id \in Ids : GuiStop(id)
  \/ \E id \in Ids : GuiClose(id)
  \/ \E w \in Workers, s \in Senders : Receive(w, s)
  \/ \E w \in Workers : LookupModel(w)
  \/ \E w \in Workers : LookupClient(w)
  \/ \E w \in Workers : VendorError(w)
  \/ \E w \in Workers, t \in Responses : VendorText(w, t)
  \/ \E w \in Workers : SaveSession(w)

SchedInit == Init /\ ui = "gui"

SchedSpec == SchedInit /\ [][SchedNext]_vars

\* ------------------------------------------------------------------- round trip

\* the workloads a caller hands to AddSession
StoredWorkloads ==
  {[name |-> "chat", agentId |-> "a1", agentType |-> "ChatAgent",
    models |-> m, payload |-> p, status |-> st, timestamp |-> 1] :
     m \in {<<>>, <<"m2", "m1">>}, p \in {<<"t1">>},
     st \in {PENDING, RUNNING, COMPLETED, FAILED}}

\* db.AddSession(s) for a workload s of the given id
StoreSession(id, s) ==
  /\ ~crashed
  /\ db' = Persist(id, s)
  /\ db' # db
  /\ UNCHANGED <<config, clock, agentVars, shopVars, dbUp, reinitVars, llmVars, registry, tuiVars, guiVars, modelStore, mem,
                 nextId, pending, wk, runs, taken, done, preRun, last>>

\* workloads are stored and read back by id
RoundTripNext ==
  \/ \E id \in Ids, s \in StoredWorkloads : StoreSession(id, s)
  \/ \E id \in Ids : TuiLoad(id)

RoundTripInit == Init /\ ui = "tui" /\ numWorkers = NumWorkers

RoundTripSpec == RoundTripInit /\ [][RoundTripNext]_vars

\* ------------------------------------------------------------------ claims

Busy(w) == wk[w].pc # "idle"
Holders(id) == {w \in Workers : Busy(w) /\ wk[w].id = id}
Waiting(id) == {s \in Senders : pending[s] # NoMsg /\ pending[s].id = id}
Settled(id) == runs[id] > 0 /\ done[id] = runs[id]
ErrorEnds == {"no models", "no model info", "no client", "vendor error"}
RunIds == {id \in Ids : runs[id] > 0}

\* C1: every workload handed to the channel by a run action is received by
\* exactly one worker, once per run action, and its processing ends; with
\* more workloads run than there are workers, none is skipped and none is
\* taken twice.
C1_EachRunProcessedOnce ==
  /\ [](\A id \in Ids :
          /\ taken[id] + Cardinality(Waiting(id)) = runs[id]
          /\ done[id] + Cardinality(Holders(id)) = taken[id])
  /\ \A id \in Ids : \A k \in 1..MaxRuns :
       (runs[id] = k) ~> (done[id] >= k)

\* C2: no two workers execute a workload of the same id at the same time.
C2_OneWorkerPerId ==
  \A w1, w2 \in Workers :
    (w1 # w2 /\ Busy(w1) /\ Busy(w2)) => wk[w1].id # wk[w2].id

\* C3: a workload that was run and whose model call succeeded has the
\* persisted status COMPLETED and a persisted payload made of its payload
\* before the run and the appended response.
C3_SuccessEndsCompleted ==
  \A id \in Ids :
    (Settled(id) /\ runs[id] = 1 /\ last[id] = "saved") =>
      /\ db[id].status = COMPLETED
      /\ \E r \in Responses : db[id].payload = AppendPayload(preRun[id], r)

\* C4: a workload whose processing returned an error has the persisted
\* status FAILED and the persisted payload it had before the run.
C4_ErrorEndsFailed ==
  \A id \in Ids :
    (Settled(id) /\ runs[id] = 1 /\ last[id] \in ErrorEnds) =>
      /\ db[id].status = FAILED
      /\ db[id].payload = preRun[id]

\* C5: a workload whose persisted status is RUNNING eventually has the
\* persisted status COMPLETED or FAILED.
C5_RunningEnds ==
  \A id \in Ids :
    (db[id].status = RUNNING) ~> (db[id].status \in {COMPLETED, FAILED})

\* C6: the row of a workload shows RUNNING from the moment the workload is
\* offered to the channel and as long as a worker holds it.
C6_RunningBeforeQueued ==
  /\ \A s \in Senders :
       pending[s] # NoMsg => db[pending[s].id].status = RUNNING
  /\ \A w \in Workers : Busy(w) => db[wk[w].id].status = RUNNING

\* C7: a worker that holds a workload whose agent type has no implementation
\* writes nothing to the sessions table.
C7_UnknownAgentDropped ==
  [][\A w \in Workers :
       (Busy(w) /\ wk'[w] # wk[w]
        /\ mem[wk[w].id].agentType \notin AgentImpls) => db' = db]_vars

\* C8: a call for a registered model is made through the client that was
\* built for the wire-spec of that model.
C8_ClientOfOwnSpec ==
  \A w \in Workers :
    wk[w].pc = "call" => wk[w].client.spec = wk[w].model.apiSpec

\* C9: a call resolves its model and its client in the registry as it stood
\* when the call began, also when worker.Init runs meanwhile.
C9_OneSnapshot == \A w \in Workers : ~wk[w].torn

\* what the history says of a name's dates and prices
DatesOf(ps, name) == {ps[i].date : i \in {j \in DOMAIN ps : ps[j].name = name}}
PricesAt(ps, name, date) ==
  {ps[i].price : i \in {j \in DOMAIN ps : ps[j].name = name /\ ps[j].date = date}}
Least(S) == CHOOSE x \in S : \A y \in S : x <= y
Greatest(S) == CHOOSE x \in S : \A y \in S : x >= y
Latest(ps, name) == Greatest(DatesOf(ps, name))
Before(ps, name) == Greatest(DatesOf(ps, name) \ {Latest(ps, name)})
Dropped(ps, name) ==
  /\ Cardinality(DatesOf(ps, name)) >= 2
  /\ Least(PricesAt(ps, name, Latest(ps, name)))
       < Least(PricesAt(ps, name, Before(ps, name)))

\* C10: the analysis notifies for a product name exactly when the name
\* has samples at two dates or more and the lowest price at its latest date
\* is below the lowest price at the date before; the notification carries
\* these two prices.
C10_DropIffLowerMinimum ==
  /\ \A name \in ProductNames :
       (\E n \in notes : n.name = name) <=> Dropped(seen, name)
  /\ \A n \in notes :
       /\ n.now = Least(PricesAt(seen, n.name, Latest(seen, n.name)))
       /\ n.was = Least(PricesAt(seen, n.name, Before(seen, n.name)))

\* the two histories of the claim: a drop from 10 to 7, and no drop
C10_Witness ==
  /\ seen = <<[name |-> "Widget", price |-> 10, date |-> 1],
              [name |-> "Widget", price |-> 7, date |-> 2]>>
  /\ notes = {[name |-> "Widget", now |-> 7, was |-> 10]}

C10_WitnessNoDrop ==
  /\ seen = <<[name |-> "Widget", price |-> 10, date |-> 1],
              [name |-> "Widget", price |-> 8, date |-> 1],
              [name |-> "Widget", price |-> 9, date |-> 2]>>
  /\ notes = {}

\* C11: a product name whose samples all carry one sampling date gets no
\* notification, whatever their number and prices.
C11_OneDateNoNotification ==
  \A name \in ProductNames :
    Cardinality(DatesOf(seen, name)) = 1 =>
      ~(\E n \in notes : n.name = name)

\* three samples of one name at one date, at falling prices, were analysed
C11_Witness ==
  /\ Len(seen) = 3
  /\ \A i \in 1..3 : seen[i].name = "Widget" /\ seen[i].date = 2
  /\ seen[1].price = 10 /\ seen[2].price = 8 /\ seen[3].price = 7
  /\ notes = {}

\* C13: a vendor call is issued only for a first model id that is in the
\* registry and has a client of its own; otherwise the generate call ends
\* in an error before any vendor call.
C13_NoClientNoCall ==
  /\ \A w \in Workers :
       wk[w].pc = "call" =>
         /\ wk[w].models # <<>>
         /\ wk[w].models[1] \in ModelIds
         /\ wk[w].model.id = wk[w].models[1]
         /\ wk[w].client = NewClient(wk[w].model)
  /\ gen.err = "" /\ gen # NoGen =>
       /\ gen.model # NoModel
       /\ gen.client = NewClient(gen.model)

\* a successful call of the price-drop analyzer is the last DoWork call
Analyzed ==
  /\ job.agent = "ShoppingNotificationAgent"
  /\ job.result = "ok"

\* the lines of the notifications, in the order o
LinesIn(o) == [i \in DOMAIN o |-> NoteLine(o[i])]

\* C12 (as stated): after a successful run of the analyzer the payload is
\* exactly the no-drops literal when there is no notification, and otherwise
\* the notification lines joined; the payload of before is gone.
C12_PayloadIsJoinedLines ==
  Analyzed =>
    /\ notes = {} => job.payload = <<"No price drops detected.">>
    /\ notes # {} =>
         \E o \in Orders(notes) : job.payload = <<Join(LinesIn(o), "\n")>>
    /\ job.payload # job.workload.payload

\* C12 (amended): after a successful run of the analyzer the payload is
\* exactly the no-drops literal when there is no notification, and otherwise
\* the line "Nieve AI alerts:" followed by the notification lines, one per
\* line, in some order of the products; the payload of before is gone.
C12_PayloadIsAlertsAndLines ==
  Analyzed =>
    /\ notes = {} => job.payload = <<"No price drops detected.">>
    /\ notes # {} =>
         \E o \in Orders(notes) :
           job.payload = <<Join(<<"Nieve AI alerts:">> \o LinesIn(o), "\n")>>
    /\ \A i \in DOMAIN job.payload :
         \A j \in DOMAIN job.workload.payload :
           job.payload[i] # job.workload.payload[j]

\* the analyzer found drops of both products and wrote them to the payload
C12_Witness ==
  /\ Analyzed
  /\ Cardinality(notes) = 2
  /\ job.workload.payload = <<"t1">>
  /\ job.payload # <<"t1">>

\* the last DoWork call returned an error, made no model call and reached
\* no store
Rejected ==
  /\ job.result = "error"
  /\ job.calls = 0
  /\ ~job.touched

\* C14: every agent's DoWork, given a nil workload or a nil model client,
\* returns an error without a model call and without reaching a store; the
\* company-relationship and the shopping agent do so for an empty name too.
C14_NilArgumentsRejected ==
  /\ job.agent # "" /\ (job.workload.nil \/ ~job.client) => Rejected
  /\ job.agent \in {"CompanyRelationshipAgent", "ShoppingAgent"}
       /\ job.workload.name = "" => Rejected

\* the agents that ask the model
ModelAgents == {"ChatAgent", "CompanyRelationshipAgent", "ShoppingAgent"}

\* the last DoWork call got arguments that pass the agent's checks
Validated ==
  /\ ~job.workload.nil
  /\ job.client
  /\ job.agent \in {"CompanyRelationshipAgent", "ShoppingAgent"} =>
       job.workload.name # ""

\* C15 (as stated): a DoWork call of any agent makes exactly one generate
\* call when its arguments pass validation and none when they do not, never
\* more than one, and none succeeds without one.
C15_GenerateExactlyOnce ==
  job.agent # "" =>
    /\ job.calls <= 1
    /\ Validated => job.calls = 1
    /\ ~Validated => job.calls = 0
    /\ job.result = "ok" => job.calls = 1

\* C15 (amended): a DoWork call of the chat, the company-relationship or
\* the shopping agent makes one generate call if its arguments pass validation
\* and, for the shopping agent, the page named in the payload can be fetched,
\* and none otherwise; it never makes more than one and never succeeds
\* without one. The price-drop analyzer makes none.
C15_GenerateAtMostOnce ==
  /\ job.agent \in ModelAgents =>
       /\ job.calls <= 1
       /\ job.calls = 1 <=>
            Validated /\ job.step # "failed to get HTML from URL"
       /\ job.result = "ok" => job.calls = 1
  /\ job.agent = "ShoppingNotificationAgent" => job.calls = 0

\* the shopping agent made its one call and stored what the model found
C15_Witness ==
  /\ job.agent = "ShoppingAgent"
  /\ job.result = "ok"
  /\ job.calls = 1
  /\ job.touched
  /\ Len(products) = 2

\* C16: when a DoWork call returns an error, at whatever step, the payload
\* of the workload is the one it had at the call.
C16_ErrorKeepsPayload ==
  job.result = "error" => job.payload = job.workload.payload

\* the company-relationship agent gave up on an answer it could not decode,
\* after the model call
C16_Witness ==
  /\ job.agent = "CompanyRelationshipAgent"
  /\ job.result = "error"
  /\ job.step = "failed to parse JSON"
  /\ job.calls = 1
  /\ job.payload = <<"t1">>

\* the persisted status of id is a final one
Finished(id) == db[id].status \in {COMPLETED, FAILED}

C18_RunningPayloadOnlyByWorker ==
  [][\A id \in Ids :
       (db[id].status = RUNNING /\ db'[id].payload # db[id].payload) =>
         \E w \in Workers :
           /\ wk[w].pc = "save" /\ wk[w].id = id
           /\ wk'[w].pc = "idle"]_vars

\* the models column of a row: strings.Join(session.Models, ",")
ModelsColumn(row) == Join(row.models, ",")

\* C19: once a workload has a row, every later persist leaves the row's
\* name, agent id, agent type, models and timestamp as they were; only status
\* and payload differ between two stored versions of an id.
C19_IdentityFieldsKept ==
  [][\A id \in Ids :
       db[id] # NoRow =>
         /\ db'[id].name = db[id].name
         /\ db'[id].agentId = db[id].agentId
         /\ db'[id].agentType = db[id].agentType
         /\ ModelsColumn(db'[id]) = ModelsColumn(db[id])
         /\ db'[id].timestamp = db[id].timestamp]_vars

\* C20: a workload that cannot be processed never stops the pool: the
\* process keeps running, and the worker that took the workload gets back to
\* the queue.
C20_PoolKeepsRunning ==
  /\ [](crashed = FALSE)
  /\ \A w \in Workers : Busy(w) ~> ~Busy(w)

\* the ends of ProcessWorkload in which the write-back failed
PersistenceEnds == {"get error", "save error"}

\* C21: when the read or the write of the worker's write-back fails, the
\* step writes nothing (every stored row is as before), puts nothing into
\* the channel, and leaves the worker waiting for the next workload.
C21_FailedWriteBackWritesNothing ==
  [][\A w \in Workers :
       (/\ Busy(w) /\ wk'[w] # wk[w]
        /\ done'[wk[w].id] = done[wk[w].id] + 1
        /\ last'[wk[w].id] \in PersistenceEnds) =>
         /\ db' = db
         /\ pending' = pending
         /\ wk'[w] = IdleWorker]_vars

\* the write of a write-back failed: the row read before the database went
\* down is still the one the run action stored, and the worker is idle
C21_Witness ==
  \E id \in Ids :
    /\ last[id] = "save error"
    /\ done[id] = 1
    /\ db[id].status = RUNNING
    /\ db[id].payload = preRun[id]
    /\ Holders(id) = {}

\* the run actions of id whose send has returned
Completed(id) == runs[id] - Cardinality(Waiting(id))

\* C22: workloads reach the workers in the order of their run actions: the
\* workload of every run action that has completed has been dequeued, so it
\* is dequeued before any run action that begins later; and a workload is
\* dequeued only out of a run action that is under way.
C22_AdmittedInRunOrder ==
  [][/\ \A a \in Ids : taken'[a] = Completed(a)'
     /\ \A b \in Ids :
          taken'[b] = taken[b] + 1 =>
            \E s \in Waiting(b) : pending'[s] = NoMsg]_vars

\* the run of the first session has completed and a worker is at work on
\* it; the run of the second began afterwards and waits to be dequeued
C22_Witness ==
  /\ runs[1] = 1 /\ taken[1] = 1 /\ done[1] = 0
  /\ Waiting(1) = {}
  /\ runs[2] = 1 /\ taken[2] = 0
  /\ pending[UiThread] # NoMsg /\ pending[UiThread].id = 2

\* C23: when the process is shut down, no worker is left in the middle of a
\* workload: every worker that was processing has finished, write-back
\* included, and no workload is abandoned.
C23_NoWorkloadAbandoned ==
  crashed => \A w \in Workers : ~Busy(w)

\* C24: the number of workers is the command-line value when it is greater
\* than zero, otherwise the configuration value, and 5 when neither gives one;
\* once the pool is started exactly that many worker loops run, and neither
\* number changes afterwards.
C24_PoolSizeAsConfigured ==
  /\ [](numWorkers = IF flagWorkers > 0 THEN flagWorkers
                     ELSE IF cfgWorkers # 0 THEN cfgWorkers
                     ELSE DefaultWorkers)
  /\ [](PoolStarted => loops = numWorkers)
  /\ [][/\ numWorkers' = numWorkers
        /\ PoolStarted => loops' = loops]_vars

\* the errors that carry the vendor's error e
Wrapped(e) ==
  {"error calling Gemini API: " \o e, "error calling OpenAI API: " \o e}

\* C25: a generate call whose vendor call failed returns an error that
\* carries the vendor's error and returns no text, whatever the failed call
\* gave back; a worker whose vendor call failed ends the workload with that
\* error and without a write-back.
C25_VendorFailureIsAnError ==
  /\ [](gen.vendor.error # "" =>
         /\ gen.err \in Wrapped(gen.vendor.error)
         /\ gen.text = <<>>)
  /\ [][\A w \in Workers :
          (/\ wk[w].pc = "call"
           /\ wk'[w] # wk[w]
           /\ last'[wk[w].id] = "vendor error") =>
             /\ wk'[w] = IdleWorker
             /\ db' = db]_vars

\* a vendor call failed although it gave back a text, and a worker ended a
\* workload on a vendor error
C25_Witness ==
  /\ gen.vendor.error # "" /\ gen.vendor.text # <<>>
  /\ gen.err # ""
  /\ \E id \in Ids : last[id] = "vendor error" /\ done[id] > 0

\* how the mail step ends when a mail was attempted, and when it failed
Attempted == {"sent", "send failed"}
MailFailures == {"bad config", "send failed"}

\* C26: the analyzer attempts a mail only when it has a notification and the
\* workload carries a delivery configuration; when the configuration cannot be
\* parsed or the send fails, DoWork still returns success and the payload is
\* the notification text.
C26_MailFailureIsNotAnError ==
  job.agent = "ShoppingNotificationAgent" =>
    /\ job.mail \in Attempted =>
         /\ notes # {}
         /\ job.workload.config # ""
    /\ job.mail \in MailFailures =>
         /\ job.result = "ok"
         /\ \E o \in Orders(notes) : job.payload = <<FullMessage(o)>>

\* the analyzer found a price drop and its mail could not be sent
C26_Witness ==
  /\ job.agent = "ShoppingNotificationAgent"
  /\ job.mail = "send failed"
  /\ job.workload.config = "smtp"
  /\ job.result = "ok" /\ notes # {}

\* C27: the product history is append-only: a step of any agent leaves every
\* row that was in the table where it was and as it was, and only adds rows
\* after them.
C27_HistoryIsAppendOnly ==
  [][/\ Len(products') >= Len(products)
     /\ \A i \in DOMAIN products : products'[i] = products[i]]_vars

\* the shopping agent has inserted in two runs and the analyzer has read the
\* table since
C27_Witness ==
  /\ Len(products) >= 3
  /\ \E i, j \in DOMAIN products : products[i].date # products[j].date
  /\ seen = products
  /\ job.agent = "ShoppingNotificationAgent"

\* the sampling dates of a name that are strictly earlier than its latest one
Earlier(ps, name) == {d \in DatesOf(ps, name) : d < Latest(ps, name)}

\* C28: for every product of an analysed history, in whatever order its rows
\* are and however many of them share the latest date, the analyzer takes the
\* latest sampling date as the most recent period and the greatest strictly
\* earlier sampling date as the previous period, and it finds no previous
\* period exactly when no strictly earlier date exists.
C28_PreviousIsNearestEarlier ==
  \A name \in {seen[i].name : i \in DOMAIN seen} :
    LET list == SortByDate(GroupOf(seen, name))
        mostRecent == list[Len(list)].date
    IN /\ mostRecent = Latest(seen, name)
       /\ PreviousPeriod(list, mostRecent) =
            IF Earlier(seen, name) = {} THEN 0
            ELSE Greatest(Earlier(seen, name))
       /\ PreviousPeriod(list, mostRecent) = 0 <=> Earlier(seen, name) = {}

\* an analysed history of one name, its rows out of date order, two of them
\* at the latest date and one at an earlier date
C28_Witness ==
  /\ Len(seen) = 3
  /\ \A i \in 1..3 : seen[i].name = "Widget"
  /\ seen[1].date = seen[3].date
  /\ seen[2].date < seen[1].date
  /\ PreviousPeriod(SortByDate(seen), seen[1].date) = seen[2].date

\* the api_spec values for which a client is built
Recognized == {"gemini", "openai"}

\* C29: in a registry initialized from a list that holds a model of an
\* unrecognized or empty api_spec, every listed model is resolvable by its
\* id, every model of a recognized spec has the client built for it, and the
\* model of the unrecognized spec has no client.
C29_UnknownSpecOnlySkipped ==
  (\E id \in modelStore : modelInfo[id].apiSpec \notin Recognized) =>
    \A id \in modelStore :
      /\ modelInfo[id] # NoModel
      /\ llm.modelInfo[id] # NoModel
      /\ modelInfo[id].apiSpec \in Recognized =>
           /\ clients[ClientKey(modelInfo[id])] = NewClient(modelInfo[id])
           /\ llm.clients[id] = NewClient(modelInfo[id])
      /\ modelInfo[id].apiSpec \notin Recognized =>
           /\ clients[ClientKey(modelInfo[id])] = NoClient
           /\ llm.clients[id] = NoClient

\* a models list cut down to its first id
FirstOnly(models) == IF models = <<>> THEN <<>> ELSE <<models[1]>>

\* C30: a workload is processed by the first id of its models list alone: a
\* generate call ends as the call for the list cut down to its first id ends,
\* a worker resolves the model of the first id and the client of that model
\* and ends the workload as the first id decides, and an empty list is
\* rejected with an error before any lookup and any vendor call.
C30_FirstModelOnly ==
  /\ [](gen # NoGen =>
         /\ [gen EXCEPT !.asked = <<>>] =
              [Returned(Generate(llm, FirstOnly(gen.asked)), gen.vendor)
                 EXCEPT !.asked = <<>>]
         /\ gen.asked = <<>> =>
              /\ gen.err = "no models"
              /\ gen.model = NoModel /\ gen.vendor = NoOutcome)
  /\ [](\A w \in Workers :
          /\ wk[w].pc \in {"client", "call"} =>
               /\ wk[w].models # <<>>
               /\ wk[w].model = modelInfo[wk[w].models[1]]
          /\ wk[w].pc = "call" =>
               wk[w].client = clients[ClientKey(wk[w].model)])
  /\ [][\A w \in Workers :
          (Busy(w) /\ wk'[w] = IdleWorker) =>
            /\ last'[wk[w].id] = "no models" <=>
                 wk[w].pc = "start" /\ wk[w].models = <<>>
            /\ last'[wk[w].id] = "no model info" <=>
                 /\ wk[w].pc = "start" /\ wk[w].models # <<>>
                 /\ \/ wk[w].models[1] \notin ModelIds
                    \/ modelInfo[wk[w].models[1]] = NoModel]_vars

\* a generate call and a worker both resolved the first of two registered ids
C30_Witness ==
  /\ gen.asked = <<"m2", "m1">>
  /\ gen.model.id = "m2" /\ gen.text # <<>>
  /\ llm.modelInfo["m1"] # NoModel
  /\ \E w \in Workers :
       /\ wk[w].pc = "call" /\ wk[w].models = <<"m2", "m1">>
       /\ wk[w].model.id = "m2"
       /\ modelInfo["m1"] # NoModel
  /\ \E id \in Ids : last[id] = "no models"

\* C31: for every value of the flag and of the configuration file, the
\* started pool has at least one worker loop.
C31_SomeWorkerStarted ==
  PoolStarted => loops >= 1

\* every started worker is in the middle of a workload
AllBusy == \A w \in Workers : w <= loops => Busy(w)

\* what the user's actions act on: the text front end's and the window's state
UiState == <<tuiVars, guiVars, nextId>>

\* C32: the channel holds nothing on its own: a workload leaves a sender only
\* into a worker that was waiting, a sender stays blocked while every worker
\* is busy, and while the front end's own run action is blocked no other
\* action of the user takes place.
C32_RunBlocksUntilReceived ==
  [][/\ \A s \in Senders :
          (pending[s] # NoMsg /\ pending'[s] # pending[s]) =>
            /\ pending'[s] = NoMsg
            /\ ~AllBusy
            /\ \E w \in Workers :
                 /\ ~Busy(w) /\ wk'[w].pc = "start"
                 /\ wk'[w].id = pending[s].id
     /\ pending[UiThread] # NoMsg =>
          /\ UiState' = UiState
          /\ \A id \in Ids : runs'[id] # runs[id] => pending'[id] # pending[id]]_vars

\* the only worker is busy and the front end is blocked in a second run
C32_Witness ==
  /\ AllBusy
  /\ pending[UiThread] # NoMsg
  /\ \E w \in Workers : Busy(w) /\ wk[w].pc = "call"

\* C34: a workload of a session that session creation accepted resolves to
\* a registered model when a worker processes it: no worker ends such a
\* workload for want of the model's information, also when the model was
\* added after startup.
C34_AcceptedIsRegistered ==
  \A id \in Ids :
    (runs[id] > 0 /\ \A i \in DOMAIN mem[id].models :
                       mem[id].models[i] \in modelStore) =>
      last[id] # "no model info"

\* the payload holds a response that a write-back appended
HasResponse(payload) == \E i \in DOMAIN payload : payload[i] = "SEP"

\* C33: once a worker has persisted a response, the stored payload holds a
\* response in every later state until a new run of the workload is started;
\* no save action removes it.
C33_ResponseStays ==
  [][\A id \in Ids :
       (HasResponse(db[id].payload) /\ runs'[id] = runs[id]) =>
         HasResponse(db'[id].payload)]_vars

\* C35: a scheduled session whose previous run has finished is run again by
\* the next tick: once every run of it has been processed to its end, the
\* the last one with its response written back, the session no longer shows
\* RUNNING to its schedule, so the tick enqueues it.
C35_TickRunsFinishedSession ==
  \A id \in Ids :
    (/\ live[id] > 0
     /\ Settled(id) /\ last[id] = "saved"
     /\ Holders(id) = {} /\ Waiting(id) = {}) =>
      mem[id].status # RUNNING

\* C36: a session has at most one periodic runner at a time, and a scheduled
\* run enqueues a session only while scheduledSessions holds its schedule:
\* never after the stop action or the close-tab action.
C36_OneRunnerUntilStopped ==
  /\ [](\A id \in Ids : live[id] <= 1)
  /\ [][\A id \in Ids :
          (pending[id] = NoMsg /\ pending'[id] # NoMsg) => sched[id]]_vars

\* C37: a workload read back by its id has the name, agent, agent type,
\* models list, payload and status it was saved with, whatever its models
\* list and its status.
C37_ReadBackIsWhatWasSaved ==
  [][\A id \in Ids :
       mem'[id] # mem[id] =>
         /\ mem'[id].name = db[id].name
         /\ mem'[id].agentId = db[id].agentId
         /\ mem'[id].agentType = db[id].agentType
         /\ mem'[id].models = db[id].models
         /\ mem'[id].payload = db[id].payload
         /\ mem'[id].status = db[id].status]_vars

\* ------------------------------------------------------------------ samples of one run

\* the readings of time.Now() by the loop over the results of one call: one
\* reading for each result, none earlier than the one before it
Ticks(n) ==
  {nows \in [1..n -> Clock] : \A i \in 1..(n - 1) : nows[i] <= nows[i + 1]}

\* the answers that hold offers: two of one product, one of each product
SampleReplies ==
  {Reply(<<"[", "W10", "W7", "]">>), Reply(<<"[", "W7", "W10", "]">>),
   Reply(<<"[", "W7", "G8", "]">>), Reply(<<"[", "G10", "]">>)}

SampleNext ==
  \/ \E reply \in SampleReplies :
       \E nows \in Ticks(ResultCount(reply, ShoppingObjects)) :
         ShoppingDoWork(Workload("Widget", <<"t1">>, ""), TRUE, TRUE, reply,
                        nows, 1..ResultCount(reply, ShoppingObjects))
  \/ \E order \in Orders(Notifications(products)) :
       NotificationDoWork(Workload("Widget", <<"t1">>, ""), TRUE, TRUE, order,
                          TRUE)

\* the shopping agent and the analyzer, called in a started process
SampleInit ==
  /\ Init
  /\ ui = "tui"
  /\ numWorkers = NumWorkers

SampleSpec == SampleInit /\ [][SampleNext]_vars

\* the rows that the step appended to the history
Sampled == {i \in DOMAIN products' : i > Len(products)}

\* C38: the rows that one run of the shopping agent inserts carry one
\* sampling date, and the history that one run leaves in an empty table
\* shows the analyzer no price drop.
C38_OneDatePerRun ==
  [][/\ \A i, j \in Sampled : products'[i].date = products'[j].date
     /\ products = <<>> => Notifications(products') = {}]_vars

\* the step runs the current session of the text controller again, with no
\* instruction text entered since its last run
RunsAgain ==
  /\ ui = "tui" /\ cur # 0
  /\ buf = <<>>
  /\ runs[cur] >= 1 /\ runs'[cur] = runs[cur] + 1

\* C39: a second run of the current session with no new instruction text
\* hands over the payload of the run before it, and a stored payload that
\* holds a response still holds one after the run action.
C39_SecondRunKeepsPayload ==
  [][RunsAgain =>
       /\ preRun'[cur] = preRun[cur]
       /\ HasResponse(db[cur].payload) => HasResponse(db'[cur].payload)]_vars

====
